---- MODULE Spec2Model ----
(***************************************************************************)
(* JasmineTool: remote execution and parallel tmux-session orchestration.  *)
(*                                                                         *)
(* Several parts, each with its own specification over the shared          *)
(* variables:                                                              *)
(*   SpecOrch   - the session orchestrators (ProjectStarter.run,           *)
(*                StartManager.create_tmux_session,                        *)
(*                TmuxManager.create_tmux_session and the shell script of  *)
(*                create_tmux_session_remote), one tmux command per step;  *)
(*   SpecPlan   - device-id derivation alone, over every configuration     *)
(*                string up to MaxCfgLen;                                  *)
(*   SpecQuote  - SSHExecutor.execute_command's command composition and    *)
(*                the local POSIX shell that parses it;                    *)
(*   SpecStream - SSHExecutor._execute_with_stream against a child process *)
(*                writing to two bounded pipes;                            *)
(*   SpecRemote - start_wandb_agents_remote: connection validation, the    *)
(*                progress lines it prints and the setup script it runs;   *)
(*   SpecOrchFair - SpecOrch with every step of the call eventually taken; *)
(*   SpecSess   - two orchestration calls addressing one tmux server;      *)
(*   SpecShare  - two calls in one process: working directory and          *)
(*                fixed-path script files;                                 *)
(*   SpecEnv    - the three methods that put environment exports in front  *)
(*                of a command;                                            *)
(*   SpecK8s    - the start script generated for Kubernetes targets;       *)
(*   SpecGpuMode - RemoteGpuMode.execute over its configured servers;      *)
(*   SpecSync   - the `target sync` command down to ProjectSync.run.       *)
(* Strings are sequences of one-character strings.                         *)
(***************************************************************************)
EXTENDS Integers, Sequences, FiniteSets, TLC

(***************************************************************************)
(* Bounds of the model.                                                    *)
(***************************************************************************)
MaxGpus == 2
MaxProcs == 2
MaxFailures == 1
MaxCfgLen == 3
MaxCmdLen == 3
MaxWrites == 3
PipeCap == 2
MaxTokenLen == 5
MaxMinutes == 1
MaxEnvVars == 2
MaxServers == 2

(***************************************************************************)
(* Python string helpers (str.split, str.strip, int, str).                 *)
(***************************************************************************)
RECURSIVE SplitAcc(_, _, _, _)
SplitAcc(s, sep, cur, acc) ==
    IF s = <<>> THEN Append(acc, cur)
    ELSE IF Head(s) = sep THEN SplitAcc(Tail(s), sep, <<>>, Append(acc, cur))
    ELSE SplitAcc(Tail(s), sep, Append(cur, Head(s)), acc)

\* str.split(sep): the pieces between separators, always at least one piece.
Split(s, sep) == SplitAcc(s, sep, <<>>, <<>>)

RECURSIVE LStrip(_)
LStrip(s) == IF s # <<>> /\ Head(s) = " " THEN LStrip(Tail(s)) ELSE s

RECURSIVE RStrip(_)
RStrip(s) ==
    IF s # <<>> /\ s[Len(s)] = " " THEN RStrip(SubSeq(s, 1, Len(s) - 1)) ELSE s

\* str.strip()
Strip(s) == LStrip(RStrip(s))

Digits == <<"0", "1", "2", "3", "4", "5", "6", "7", "8", "9">>

IsDigit(c) == \E d \in 1..10 : Digits[d] = c

DigitValue(c) == (CHOOSE d \in 1..10 : Digits[d] = c) - 1

\* int(s) raises ValueError unless s, stripped, is a non-empty run of digits.
IsIntLiteral(s) ==
    /\ Strip(s) # <<>>
    /\ \A i \in 1..Len(Strip(s)) : IsDigit(Strip(s)[i])

RECURSIVE DigitsValue(_, _)
DigitsValue(s, acc) ==
    IF s = <<>> THEN acc ELSE DigitsValue(Tail(s), 10 * acc + DigitValue(Head(s)))

\* int(s)
IntValue(s) == DigitsValue(Strip(s), 0)

RECURSIVE StrOfNat(_)
\* str(n) for n >= 0
StrOfNat(n) ==
    IF n < 10 THEN <<Digits[n + 1]>>
    ELSE Append(StrOfNat(n \div 10), Digits[(n % 10) + 1])

(***************************************************************************)
(* Orchestration state.                                                    *)
(***************************************************************************)
VARIABLES
    variant,        \* which orchestrator runs: "ssh", "local", "tmuxmgr",
                    \* "remote"
    gpu_config,     \* the device-configuration string
    num_processes,  \* processes per device
    toolPresent,    \* nvidia-smi is installed on the host that is queried
    versionOk,      \* `nvidia-smi --version` exits 0 there
    numGpus,        \* devices nvidia-smi lists
    queryOk,        \* the nvidia-smi query exits 0
    pc,             \* position of the call
    has_gpu,        \* has_gpu / has_nvidia_smi of the code
    gpu_ids,        \* derived device-id list
    gi,             \* index into gpu_ids of the outer loop (1-based)
    pi,             \* i of the inner loop
    first_pane,     \* first_pane of the code
    issued,         \* tmux commands issued so far, in order
    nfail,          \* per-pane commands that failed so far
    result,         \* "none", "true", "false", "raise"
    panes,          \* tmux: per pane, the entry indices typed into it
    start_ret       \* what Server.start handed back to its caller, or "pending"

orchVars == <<variant, gpu_config, num_processes, toolPresent, versionOk,
              numGpus, queryOk, pc, has_gpu,
              gpu_ids, gi, pi, first_pane, issued, nfail, result,
              panes, start_ret>>

(***************************************************************************)
(* Command-composition state (SSHExecutor.execute_command[s]).             *)
(***************************************************************************)
VARIABLES
    q_pc,           \* "idle", "local" (ssh started by the local shell), "remote"
    q_cmds,         \* the command(s) the caller passes
    q_host,         \* self.ssh_host
    q_work_dir,     \* self.work_dir
    q_no_work_dir,  \* no_work_dir
    q_pty,          \* stream_output or force_pty
    q_api,          \* "execute_command" or "execute_commands"
    q_ssh_cmd,      \* the composed command line
    q_local,        \* what the local shell makes of q_ssh_cmd
    q_remote        \* what the remote shell makes of ssh's argument

quoteVars == <<q_pc, q_cmds, q_host, q_work_dir, q_no_work_dir, q_pty, q_api,
               q_ssh_cmd, q_local, q_remote>>

(***************************************************************************)
(* Streaming state (SSHExecutor._execute_with_stream).                     *)
(***************************************************************************)
VARIABLES
    s_pc,           \* position of _execute_with_stream
    s_select,       \* select.select works on the pipes (FALSE: it raises OSError)
    s_prog,         \* what the child process writes, in order: [s, c]
    s_ip,           \* index of the child's next write
    s_proc,         \* "running", "exited", "killed"
    s_pipe,         \* the two OS pipes: characters written and not yet read
    s_dec,          \* per stream, the text wrapper: decoded text not yet
                    \* returned and the decoder's pending carriage return
    s_ready,        \* streams select reported, not yet served
    output_lines,   \* output_lines of the code
    error_lines,    \* error_lines of the code
    s_echo,         \* per stream, what was printed to the caller
    s_intr,         \* the caller has interrupted the call
    s_term,         \* process.terminate() was called
    s_result        \* the CompletedProcess returned, or NoResult

streamVars == <<s_pc, s_select, s_prog, s_ip, s_proc, s_pipe, s_dec, s_ready,
                output_lines, error_lines, s_echo, s_intr, s_term, s_result>>

(***************************************************************************)
(* Remote start state (start_wandb_agents_remote and the channel calls it  *)
(* makes).                                                                 *)
(***************************************************************************)
VARIABLES
    r_pc,           \* position of start_wandb_agents_remote
    r_verbose,      \* verbose
    r_token,        \* wandb_key
    r_printed,      \* the lines printed so far, in order
    r_last,         \* what the last channel operation handed back
    r_ret           \* what start_wandb_agents_remote returns, or "none"

remoteVars == <<r_pc, r_verbose, r_token, r_printed, r_last, r_ret>>

(***************************************************************************)
(* Calls that share one tmux server (ProjectStarter.run,                   *)
(* TmuxManager.create_tmux_session).                                       *)
(***************************************************************************)
VARIABLES
    n_clock,        \* the minute time.strftime / datetime.now reads
    n_sessions,     \* the tmux server: session name -> the call whose
                    \* new-session made it and the keys typed into it
    n_call          \* per call: its arguments, position, session name,
                    \* commands issued and result

sessVars == <<n_clock, n_sessions, n_call>>

(***************************************************************************)
(* Calls running in one process and on one machine: the state they share   *)
(* (StartManager.start, SlurmMode.execute, SSHExecutor.execute_script).    *)
(***************************************************************************)
VARIABLES
    h_cwd,          \* the process's current working directory
    h_files,        \* fixed-path files: /tmp/slurm_job.sh here and
                    \* /tmp/remote_script.sh on each host; who wrote it last
    h_call          \* per call: its operation, position and what it consumed

shareVars == <<h_cwd, h_files, h_call>>

(***************************************************************************)
(* Environment exports put in front of a command (_with_env,               *)
(* _with_env_vars).                                                        *)
(***************************************************************************)
VARIABLES
    e_pc,           \* "idle", "call", "done"
    e_impl,         \* whose method: "ProjectStarter", "ProjectSyncAndStart",
                    \* "K8sServer"
    e_env_vars,     \* global_config.env_vars: the keys in insertion order
    e_cmd,          \* the command to wrap
    e_out           \* the composed command: its &&-separated parts in order

envVars == <<e_pc, e_impl, e_env_vars, e_cmd, e_out>>

(***************************************************************************)
(* The start script generated for Kubernetes targets                       *)
(* (ProjectSyncAndStart._generate_start_script), as bash runs it.          *)
(***************************************************************************)
VARIABLES
    k_pc,           \* "idle", "detect", "loop", "wait", "done"
    k_tool,         \* `command -v nvidia-smi` succeeds in the pod
    k_listed,       \* lines `nvidia-smi --list-gpus` prints
    k_num_processes,\* num_processes the script was generated with
    k_gpu_count,    \* $gpu_count
    k_cuda,         \* the exported CUDA_VISIBLE_DEVICES of the shell, or -1
    k_i,            \* $i of the start loop
    k_procs,        \* background processes in start order: the device
                    \* selector they inherited and whether they exited
    k_w             \* how many entries of pids[] have been waited for

k8sVars == <<k_pc, k_tool, k_listed, k_num_processes, k_gpu_count, k_cuda,
             k_i, k_procs, k_w>>

(***************************************************************************)
(* RemoteGpuMode.execute over its configured servers.                      *)
(***************************************************************************)
VARIABLES
    g_pc,           \* "idle", "test", "run", "done"
    g_servers,      \* config['servers']: per server, whether ssh reaches it,
                    \* its placement entries and which command of the tmux
                    \* chain fails there (0: none)
    g_idx,          \* the server of the current loop iteration (1-based)
    g_contacted,    \* the servers an ssh command was run against, in order
    g_started,      \* per server, the workers started on it
    g_ret           \* what execute returns, or "none"

gpuModeVars == <<g_pc, g_servers, g_idx, g_contacted, g_started, g_ret>>

(***************************************************************************)
(* The `target sync` command down to ProjectSync.run.                      *)
(***************************************************************************)
VARIABLES
    y_pc,           \* "idle", "run", "_sync", "sync", "command", "done"
    y_failing,      \* the steps of ProjectSync.run that fail on this target
    y_step,         \* the step ProjectSync.run is at (1-based)
    y_run,          \* what ProjectSync.run returned, or "pending"
    y_inner,        \* what SSHServer._sync returned, or "pending"
    y_sync,         \* what Server.sync returned, or "pending"
    y_cmd           \* the command: "pending", "completed", "raised"

syncVars == <<y_pc, y_failing, y_step, y_run, y_inner, y_sync, y_cmd>>

lateVars == <<sessVars, shareVars, envVars, k8sVars, gpuModeVars, syncVars>>

sessRest == <<orchVars, quoteVars, streamVars, remoteVars, shareVars, envVars, k8sVars, gpuModeVars, syncVars>>

shareRest == <<orchVars, quoteVars, streamVars, remoteVars, sessVars, envVars, k8sVars, gpuModeVars, syncVars>>

envRest == <<orchVars, quoteVars, streamVars, remoteVars, sessVars, shareVars, k8sVars, gpuModeVars, syncVars>>

gpuModeRest == <<orchVars, quoteVars, streamVars, remoteVars, sessVars, shareVars, envVars, k8sVars, syncVars>>

k8sRest == <<orchVars, quoteVars, streamVars, remoteVars, sessVars, shareVars, envVars, gpuModeVars, syncVars>>

syncRest == <<orchVars, quoteVars, streamVars, remoteVars, sessVars, shareVars, envVars, k8sVars, gpuModeVars>>

vars == <<orchVars, quoteVars, streamVars, remoteVars, lateVars>>

Variants == {"ssh", "local", "tmuxmgr", "remote"}

\* The pane entry of a worker that gets no CUDA_VISIBLE_DEVICES.
NoDevice == <<"none">>

AutoSentinel == <<"0">>

CfgAlphabet == {"0", "1", "a", " ", ","}

RECURSIVE StringsUpTo(_, _)
StringsUpTo(alphabet, n) ==
    IF n = 0 THEN {<<>>}
    ELSE LET shorter == StringsUpTo(alphabet, n - 1)
         IN shorter \cup {Append(s, c) : s \in shorter, c \in alphabet}

\* Configurations the orchestration runs are started with.
OrchConfigs ==
    { <<"0">>, <<"1">>, <<"1", ",", " ", "0">>, <<"a", ",", "0", "1">>, <<>>,
      <<"0", ",", ",", "1">> }

ExplicitIdsNoEmpty(cfg) ==
    SelectSeq([k \in 1..Len(Split(cfg, ",")) |-> Strip(Split(cfg, ",")[k])],
              LAMBDA t : t # <<>>)

\* [g.strip() for g in gpu_config.split(",")]
ExplicitIds(cfg) == [k \in 1..Len(Split(cfg, ",")) |-> Strip(Split(cfg, ",")[k])]

AutoIdsFromOne(count) == [k \in 1..count |-> StrOfNat(k)]

\* [str(i) for i in range(count)]
AutoIds(count) == [k \in 1..count |-> StrOfNat(k - 1)]

\* Lines printed by `nvidia-smi --query-gpu=count --format=csv,noheader`:
\* one line per device, each holding the device count.
QueryCountLines == [k \in 1..numGpus |-> StrOfNat(numGpus)]

\* ProjectStarter._has_gpu: `command -v nvidia-smi` succeeds.
HasGpu == toolPresent

\* TmuxManager.create_tmux_session, has_nvidia_smi of a local run:
\* `nvidia-smi --version` is found and exits 0.
HasNvidiaSmi == toolPresent /\ versionOk

\* ProjectStarter._detect_gpu_count: `nvidia-smi ... | wc -l`, int() of it, 0
\* when the command fails.
DetectGpuCount == IF queryOk THEN numGpus ELSE 0

\* ProjectStarter._get_gpu_ids
GetGpuIds(cfg, hasGpu) ==
    IF cfg = AutoSentinel
    THEN IF hasGpu
         THEN IF DetectGpuCount > 0 THEN AutoIds(DetectGpuCount) ELSE <<<<"0">>>>
         ELSE <<<<"0">>>>
    ELSE ExplicitIds(cfg)

\* TmuxManager.expand_gpu_config
ExpandGpuConfig(cfg) ==
    IF cfg = <<>> THEN << <<>> >>
    ELSE IF cfg = AutoSentinel
    THEN IF toolPresent /\ queryOk /\ Len(QueryCountLines) > 0
         THEN AutoIds(Len(QueryCountLines))
         ELSE <<<<"0">>>>
    ELSE ExplicitIds(cfg)

\* StartManager.create_tmux_session, lines 369-387: does parsing the
\* configuration raise ValueError (the int() of an explicit token)?
LocalIdsRaiseUncaught(cfg) ==
    \/ /\ cfg = AutoSentinel
       /\ ~(toolPresent /\ queryOk /\ Len(QueryCountLines) = 1)
    \/ /\ cfg # AutoSentinel
       /\ \E k \in 1..Len(Split(cfg, ",")) : ~IsIntLiteral(Split(cfg, ",")[k])

LocalIdsRaise(cfg) ==
    /\ cfg # AutoSentinel
    /\ \E k \in 1..Len(Split(cfg, ",")) : ~IsIntLiteral(Split(cfg, ",")[k])

\* StartManager.create_tmux_session, lines 369-387: the ids, as the f-string
\* later renders them (str of an int).
LocalIds(cfg) ==
    IF cfg = AutoSentinel
    THEN IF toolPresent /\ queryOk /\ Len(QueryCountLines) = 1
              /\ IsIntLiteral(QueryCountLines[1])
         THEN AutoIds(IntValue(QueryCountLines[1]))
         ELSE <<<<"0">>>>
    ELSE [k \in 1..Len(Split(cfg, ",")) |-> StrOfNat(IntValue(Split(cfg, ",")[k]))]

DeviceForAlways(id) == id

DeviceForNever(id) == NoDevice

\* create_tmux_session_remote: IFS="," read -ra GPUS <<< "$GPU_IDS" splits at
\* the commas, trims nothing and drops an empty last field.
IfsSplit(cfg) ==
    LET parts == Split(cfg, ",")
    IN  IF parts[Len(parts)] = <<>> THEN SubSeq(parts, 1, Len(parts) - 1)
        ELSE parts

\* create_tmux_session_remote: does the shell get past the gpu setup of the
\* script?  The setup text of the "0" branch ends its GPU_IDS line with an
\* unpaired double quote, so the command that follows is `GPUs:` and the
\* script, under set -e, ends there, before tmux new-session.
RemoteSetupRuns(cfg) == cfg # AutoSentinel

\* The device selector (CUDA_VISIBLE_DEVICES) a worker of gpu id `id` is
\* started with.
DeviceFor(id) ==
    CASE variant = "ssh" -> IF has_gpu THEN id ELSE NoDevice
      [] variant = "tmuxmgr" -> IF has_gpu /\ id # <<>> THEN id ELSE NoDevice
      [] variant = "local" -> id
      [] variant = "remote" -> id

SessionGateOpen(ok) == TRUE

\* `if not result.ok: return False` after tmux new-session.
SessionGate(ok) == ok

\* A failing command of the chained script (cmd1 && cmd2 && ...) or of the
\* remote script (set -e) ends it; run() and StartManager ignore the
\* outcome of per-pane commands.
PaneFailureAborts == variant \in {"tmuxmgr", "remote"}

InLoopSkipLast(g, i) == g <= Len(gpu_ids) /\ i + 1 < num_processes

LoopBodyAtLeastOnce(g, i) == g <= Len(gpu_ids) /\ (i < num_processes \/ i = 0)

\* for gpu_id in gpu_ids: for i in range(num_processes): is there an
\* iteration at (g, i)?
InLoop(g, i) == g <= Len(gpu_ids) /\ i < num_processes

BodyStartAlwaysSplit(fp) == "split"

\* `if not first_pane:` split and re-tile before the send-keys.
BodyStart(fp) == IF fp THEN "send" ELSE "split"

\* One tmux command: its kind, the loop's gpu_id, the device selector put
\* into the worker's command line, the worker's running index, its outcome.
Cmd(kind, gpu, dev, idx, ok) ==
    [kind |-> kind, gpu |-> gpu, dev |-> dev, idx |-> idx, ok |-> ok]

Sends == SelectSeq(issued, LAMBDA c : c.kind = "send-keys")

Outcomes == IF nfail < MaxFailures THEN BOOLEAN ELSE {TRUE}

NoResult == [returncode |-> 0, stdout |-> <<"unset">>, stderr |-> <<"unset">>]

NoReturn == [api |-> "none", conn |-> "none", kind |-> "none",
             ok |-> FALSE, returncode |-> 0, stderr |-> <<>>]

\* The remote start part at rest.
RemoteIdle ==
    /\ r_pc = "idle"
    /\ r_verbose = FALSE
    /\ r_token = <<>>
    /\ r_printed = <<>>
    /\ r_last = NoReturn
    /\ r_ret = "none"

\* The streaming part at rest.
StreamIdle ==
    /\ s_pc = "idle"
    /\ s_select = TRUE
    /\ s_prog = <<>>
    /\ s_ip = 1
    /\ s_proc = "exited"
    /\ s_pipe = [out |-> <<>>, err |-> <<>>]
    /\ s_dec = [out |-> [buf |-> <<>>, pend |-> FALSE],
                err |-> [buf |-> <<>>, pend |-> FALSE]]
    /\ s_ready = <<>>
    /\ output_lines = <<>>
    /\ error_lines = <<>>
    /\ s_echo = [out |-> <<>>, err |-> <<>>]
    /\ s_intr = FALSE
    /\ s_term = FALSE
    /\ s_result = NoResult

\* The composition part at rest.
QuoteIdle ==
    /\ q_pc = "idle"
    /\ q_cmds = <<>>
    /\ q_host = <<>>
    /\ q_work_dir = <<>>
    /\ q_no_work_dir = FALSE
    /\ q_pty = FALSE
    /\ q_api = "none"
    /\ q_ssh_cmd = <<>>
    /\ q_local = [ok |-> TRUE, cmds |-> <<>>]
    /\ q_remote = [ok |-> TRUE, cmds |-> <<>>]

\* The shared tmux server part at rest.
SessIdle ==
    /\ n_clock = 0
    /\ n_sessions = <<>>
    /\ n_call = <<>>

\* The shared-state part at rest.
ShareIdle ==
    /\ h_cwd = "cwd0"
    /\ h_files = <<>>
    /\ h_call = <<>>

\* The environment-export part at rest.
EnvIdle ==
    /\ e_pc = "idle"
    /\ e_impl = "none"
    /\ e_env_vars = <<>>
    /\ e_cmd = "none"
    /\ e_out = <<>>

\* The Kubernetes start-script part at rest.
K8sIdle ==
    /\ k_pc = "idle"
    /\ k_tool = FALSE
    /\ k_listed = 0
    /\ k_num_processes = 0
    /\ k_gpu_count = 0
    /\ k_cuda = -1
    /\ k_i = 0
    /\ k_procs = <<>>
    /\ k_w = 0

\* The RemoteGpuMode part at rest.
GpuModeIdle ==
    /\ g_pc = "idle"
    /\ g_servers = <<>>
    /\ g_idx = 1
    /\ g_contacted = <<>>
    /\ g_started = <<>>
    /\ g_ret = "none"

\* The sync part at rest.
SyncIdle ==
    /\ y_pc = "idle"
    /\ y_failing = {}
    /\ y_step = 1
    /\ y_run = "pending"
    /\ y_inner = "pending"
    /\ y_sync = "pending"
    /\ y_cmd = "pending"

LateIdle == SessIdle /\ ShareIdle /\ EnvIdle /\ K8sIdle /\ GpuModeIdle /\ SyncIdle

InitOrch ==
    /\ variant \in Variants
    /\ gpu_config \in OrchConfigs
    /\ num_processes \in 0..MaxProcs
    /\ toolPresent \in BOOLEAN
    /\ versionOk \in BOOLEAN
    /\ numGpus \in 0..MaxGpus
    /\ queryOk \in BOOLEAN
    /\ (~toolPresent => numGpus = 0 /\ ~queryOk /\ ~versionOk)
    /\ pc = "start"
    /\ has_gpu = FALSE
    /\ gpu_ids = <<>>
    /\ gi = 1
    /\ pi = 0
    /\ first_pane = TRUE
    /\ issued = <<>>
    /\ nfail = 0
    /\ result = "none"
    /\ panes = <<>>
    /\ start_ret = "pending"
    /\ QuoteIdle
    /\ StreamIdle
    /\ RemoteIdle
    /\ LateIdle

\* Device discovery and parsing of the configuration.
Discover ==
    /\ pc = "start"
    /\ has_gpu' = (IF variant = "tmuxmgr" THEN HasNvidiaSmi ELSE HasGpu)
    /\ IF variant = "local" /\ LocalIdsRaise(gpu_config)
       THEN /\ gpu_ids' = <<>>
            /\ result' = "raise"
            /\ pc' = "done"
       ELSE IF variant = "remote" /\ ~RemoteSetupRuns(gpu_config)
       THEN /\ gpu_ids' = <<>>
            /\ result' = "false"
            /\ pc' = "done"
       ELSE /\ gpu_ids' = CASE variant = "ssh" -> GetGpuIds(gpu_config, HasGpu)
                            [] variant = "tmuxmgr" -> ExpandGpuConfig(gpu_config)
                            [] variant = "local" -> LocalIds(gpu_config)
                            [] variant = "remote" -> IfsSplit(gpu_config)
            /\ result' = result
            /\ pc' = "session"
    /\ UNCHANGED <<start_ret, variant, gpu_config, num_processes, toolPresent,
                   versionOk,
                   numGpus,
                   queryOk, gi, pi, first_pane, issued, nfail, panes>>
    /\ UNCHANGED <<quoteVars, streamVars, remoteVars, lateVars>>

\* tmux new-session -d -s <name>
NewSession ==
    /\ pc = "session"
    /\ \E ok \in BOOLEAN :
        /\ issued' = Append(issued, Cmd("new-session", NoDevice, NoDevice, 0, ok))
        /\ panes' = IF ok THEN << <<>> >> ELSE panes
        /\ IF SessionGate(ok)
           THEN /\ pc' = IF InLoop(gi, pi) THEN BodyStart(first_pane) ELSE "finish"
                /\ result' = result
           ELSE /\ pc' = "done"
                /\ result' = "false"
    /\ UNCHANGED <<start_ret, variant, gpu_config, num_processes, toolPresent,
                   versionOk,
                   numGpus,
                   queryOk, has_gpu, gpu_ids, gi, pi, first_pane, nfail>>
    /\ UNCHANGED <<quoteVars, streamVars, remoteVars, lateVars>>

\* tmux split-window -t <name>
SplitWindow ==
    /\ pc = "split"
    /\ \E ok \in Outcomes :
        /\ issued' = Append(issued, Cmd("split-window", NoDevice, NoDevice, 0, ok))
        /\ panes' = IF ok /\ panes # <<>> THEN Append(panes, <<>>) ELSE panes
        /\ nfail' = IF ok THEN nfail ELSE nfail + 1
        /\ IF ~ok /\ PaneFailureAborts
           THEN pc' = "done" /\ result' = "false"
           ELSE pc' = "layout" /\ result' = result
    /\ UNCHANGED <<start_ret, variant, gpu_config, num_processes, toolPresent,
                   versionOk,
                   numGpus,
                   queryOk, has_gpu, gpu_ids, gi, pi, first_pane>>
    /\ UNCHANGED <<quoteVars, streamVars, remoteVars, lateVars>>

\* tmux select-layout -t <name> tiled
SelectLayout ==
    /\ pc = "layout"
    /\ \E ok \in Outcomes :
        /\ issued' = Append(issued, Cmd("select-layout", NoDevice, NoDevice, 0, ok))
        /\ nfail' = IF ok THEN nfail ELSE nfail + 1
        /\ IF ~ok /\ PaneFailureAborts
           THEN pc' = "done" /\ result' = "false"
           ELSE pc' = "send" /\ result' = result
    /\ UNCHANGED <<start_ret, variant, gpu_config, num_processes, toolPresent,
                   versionOk,
                   numGpus,
                   queryOk, has_gpu, gpu_ids, gi, pi, first_pane, panes>>
    /\ UNCHANGED <<quoteVars, streamVars, remoteVars, lateVars>>

\* tmux send-keys -t <name> "<full command>" C-m, then the loop's next
\* iteration.
SendKeys ==
    /\ pc = "send"
    /\ \E ok \in Outcomes :
        LET idx == Len(Sends)
            nextGi == IF pi + 1 < num_processes THEN gi ELSE gi + 1
            nextPi == IF pi + 1 < num_processes THEN pi + 1 ELSE 0
        IN  /\ issued' = Append(issued,
                                Cmd("send-keys", gpu_ids[gi],
                                    DeviceFor(gpu_ids[gi]), idx, ok))
            /\ panes' = IF ok /\ panes # <<>>
                        THEN [panes EXCEPT ![Len(panes)] = Append(@, idx)]
                        ELSE panes
            /\ nfail' = IF ok THEN nfail ELSE nfail + 1
            /\ first_pane' = FALSE
            /\ IF ~ok /\ PaneFailureAborts
               THEN pc' = "done" /\ result' = "false" /\ gi' = gi /\ pi' = pi
               ELSE /\ gi' = nextGi
                    /\ pi' = nextPi
                    /\ pc' = IF InLoop(nextGi, nextPi) THEN BodyStart(FALSE)
                                                          ELSE "finish"
                    /\ result' = result
    /\ UNCHANGED <<start_ret, variant, gpu_config, num_processes, toolPresent,
                   versionOk,
                   numGpus,
                   queryOk, has_gpu, gpu_ids>>
    /\ UNCHANGED <<quoteVars, streamVars, remoteVars, lateVars>>

\* The loops are over: report success.
Finish ==
    /\ pc = "finish"
    /\ pc' = "done"
    /\ result' = "true"
    /\ UNCHANGED <<start_ret, variant, gpu_config, num_processes, toolPresent,
                   versionOk,
                   numGpus,
                   queryOk, has_gpu, gpu_ids, gi, pi, first_pane, issued, nfail,
                   panes>>
    /\ UNCHANGED <<quoteVars, streamVars, remoteVars, lateVars>>

\* SSHServer._start calls ProjectStarter.run and drops what it returns;
\* Server.start drops what _start returns: the caller is handed None.
StartOutcome(r) == "None"

\* Server.start(...) returns to its caller.
ServerStartReturns ==
    /\ pc = "done"
    /\ variant = "ssh"
    /\ start_ret = "pending"
    /\ start_ret' = StartOutcome(result)
    /\ UNCHANGED <<variant, gpu_config, num_processes, toolPresent, versionOk,
                   numGpus, queryOk, pc, has_gpu, gpu_ids, gi, pi, first_pane,
                   issued, nfail, result, panes>>
    /\ UNCHANGED <<quoteVars, streamVars, remoteVars, lateVars>>

NextOrch ==
    \/ Discover
    \/ NewSession
    \/ SplitWindow
    \/ SelectLayout
    \/ SendKeys
    \/ Finish
    \/ ServerStartReturns

SpecOrch == InitOrch /\ [][NextOrch]_vars

\* The call is one thread of straight-line Python: every command it issues
\* returns and the next statement runs.
SpecOrchFair == InitOrch /\ [][NextOrch]_vars /\ WF_vars(NextOrch)

(***************************************************************************)
(* Device-id derivation alone, over every configuration string.            *)
(***************************************************************************)
InitPlan ==
    /\ variant \in Variants
    /\ gpu_config \in StringsUpTo(CfgAlphabet, MaxCfgLen)
    /\ num_processes = 1
    /\ toolPresent \in BOOLEAN
    /\ versionOk \in BOOLEAN
    /\ numGpus \in 0..MaxGpus
    /\ queryOk \in BOOLEAN
    /\ (~toolPresent => numGpus = 0 /\ ~queryOk /\ ~versionOk)
    /\ pc = "start"
    /\ has_gpu = FALSE
    /\ gpu_ids = <<>>
    /\ gi = 1
    /\ pi = 0
    /\ first_pane = TRUE
    /\ issued = <<>>
    /\ nfail = 0
    /\ result = "none"
    /\ panes = <<>>
    /\ start_ret = "pending"
    /\ QuoteIdle
    /\ StreamIdle
    /\ RemoteIdle
    /\ LateIdle

NextPlan == Discover

SpecPlan == InitPlan /\ [][NextPlan]_vars

(***************************************************************************)
(* Command composition and the shells that parse it.                       *)
(***************************************************************************)
CmdAlphabet == {"a", " ", "'", "\"", "\\", ";"}

\* Host names and work directories a configuration file can hold.
Hosts == { <<"h">>, <<"h", " ", "x">> }

WorkDirs == { <<"w">>, <<"w", ";", "x">>, <<"w", "'", ";", "x", ";", "'">> }

PlainCmds == { <<"a">>, <<"a", "'", "a">> }

\* The orchestration part at rest.
OrchIdle ==
    /\ variant = "ssh"
    /\ gpu_config = <<>>
    /\ num_processes = 0
    /\ toolPresent = FALSE
    /\ versionOk = FALSE
    /\ numGpus = 0
    /\ queryOk = FALSE
    /\ pc = "idle"
    /\ has_gpu = FALSE
    /\ gpu_ids = <<>>
    /\ gi = 1
    /\ pi = 0
    /\ first_pane = TRUE
    /\ issued = <<>>
    /\ nfail = 0
    /\ result = "none"
    /\ panes = <<>>
    /\ start_ret = "pending"

RECURSIVE Concat(_)
\* The concatenation of a sequence of strings.
Concat(parts) == IF parts = <<>> THEN <<>> ELSE Head(parts) \o Concat(Tail(parts))

RECURSIVE Join(_, _)
\* sep.join(parts)
Join(parts, sep) ==
    IF parts = <<>> THEN <<>>
    ELSE IF Len(parts) = 1 THEN parts[1]
    ELSE parts[1] \o sep \o Join(Tail(parts), sep)

EscapeNothing(s) == s

RECURSIVE EscapeSingleQuotes(_)
\* command.replace("'", "'\"'\"'")
EscapeSingleQuotes(s) ==
    IF s = <<>> THEN <<>>
    ELSE (IF Head(s) = "'" THEN <<"'", "\"", "'", "\"", "'">> ELSE <<Head(s)>>)
         \o EscapeSingleQuotes(Tail(s))

\* ssh_base: "ssh -p {port}", with " -t" for a pseudo-terminal.
SshBase(pty) ==
    <<"ssh", " ", "-p", " ", "22">> \o (IF pty THEN <<" ", "-t">> ELSE <<>>)

\* The string execute_command puts between the single quotes.
RemoteText(command, work_dir, no_work_dir) ==
    IF no_work_dir THEN EscapeSingleQuotes(command)
    ELSE <<"cd", " ">> \o work_dir \o <<" ", "&&", " ">>
         \o EscapeSingleQuotes(command)

\* ssh_cmd of execute_command
ComposeCommand(command, host, work_dir, no_work_dir, pty) ==
    SshBase(pty) \o <<" ">> \o host \o <<" ", "'">>
        \o RemoteText(command, work_dir, no_work_dir) \o <<"'">>

\* ssh_cmd of execute_commands
ComposeCommands(commands, host, work_dir) ==
    SshBase(FALSE) \o <<" ">> \o host \o <<" ", "'">>
        \o <<"cd", " ">> \o work_dir \o <<" ", "&&", " ">>
        \o Join([k \in 1..Len(commands) |-> EscapeSingleQuotes(commands[k])],
                <<" ", "&&", " ">>)
        \o <<"'">>

ShellOperators == {";", "&&", "&", "|"}

RECURSIVE ShStep(_, _, _, _, _, _)
\* A POSIX shell's reading of a command line: quote removal, word splitting
\* and the unquoted control operators.  ok is FALSE for an unterminated quote.
ShStep(s, mode, cur, inWord, words, cmds) ==
    IF s = <<>>
    THEN LET w2 == IF inWord THEN Append(words, cur) ELSE words
             c2 == IF w2 # <<>> THEN Append(cmds, w2) ELSE cmds
         IN  [ok |-> mode = "plain", cmds |-> c2]
    ELSE LET c == Head(s)
             r == Tail(s)
         IN  CASE mode = "sq" ->
                    IF c = "'" THEN ShStep(r, "plain", cur, TRUE, words, cmds)
                    ELSE ShStep(r, "sq", Append(cur, c), TRUE, words, cmds)
               [] mode = "dq" ->
                    IF c = "\"" THEN ShStep(r, "plain", cur, TRUE, words, cmds)
                    ELSE IF c = "\\" /\ r # <<>> /\ Head(r) \in {"\"", "\\"}
                    THEN ShStep(Tail(r), "dq", Append(cur, Head(r)), TRUE,
                                words, cmds)
                    ELSE ShStep(r, "dq", Append(cur, c), TRUE, words, cmds)
               [] mode = "plain" ->
                    IF c = " "
                    THEN ShStep(r, "plain", <<>>, FALSE,
                                IF inWord THEN Append(words, cur) ELSE words, cmds)
                    ELSE IF c \in ShellOperators
                    THEN LET w2 == IF inWord THEN Append(words, cur) ELSE words
                         IN  ShStep(r, "plain", <<>>, FALSE, <<>>,
                                    IF w2 # <<>> THEN Append(cmds, w2) ELSE cmds)
                    ELSE IF c = "'" THEN ShStep(r, "sq", cur, TRUE, words, cmds)
                    ELSE IF c = "\"" THEN ShStep(r, "dq", cur, TRUE, words, cmds)
                    ELSE IF c = "\\" /\ r # <<>>
                    THEN ShStep(Tail(r), "plain", Append(cur, Head(r)), TRUE,
                                words, cmds)
                    ELSE ShStep(r, "plain", Append(cur, c), TRUE, words, cmds)

\* subprocess.run(ssh_cmd, shell=True): /bin/sh -c reads the command line.
ShellParse(s) == ShStep(s, "plain", <<>>, FALSE, <<>>, <<>>)

InitQuote ==
    /\ OrchIdle
    /\ StreamIdle
    /\ RemoteIdle
    /\ LateIdle
    /\ q_pc = "idle"
    /\ \/ /\ q_cmds \in {<<c>> : c \in StringsUpTo(CmdAlphabet, MaxCmdLen)}
                        \cup {<<c, d>> : c \in StringsUpTo(CmdAlphabet, MaxCmdLen),
                                         d \in PlainCmds}
          /\ q_host = <<"h">>
          /\ q_work_dir = <<"w">>
       \/ /\ q_cmds \in {<<c>> : c \in PlainCmds}
          /\ q_host \in Hosts
          /\ q_work_dir \in WorkDirs
    /\ q_no_work_dir \in BOOLEAN
    /\ q_pty \in BOOLEAN
    /\ q_api = "none"
    /\ q_ssh_cmd = <<>>
    /\ q_local = [ok |-> TRUE, cmds |-> <<>>]
    /\ q_remote = [ok |-> TRUE, cmds |-> <<>>]

\* execute_command: compose the ssh command line and run it through the
\* local shell.
ExecuteCommand ==
    /\ q_pc = "idle"
    /\ Len(q_cmds) = 1
    /\ q_api' = "execute_command"
    /\ q_ssh_cmd' = ComposeCommand(q_cmds[1], q_host, q_work_dir, q_no_work_dir,
                                   q_pty)
    /\ q_local' = ShellParse(q_ssh_cmd')
    /\ q_pc' = "local"
    /\ UNCHANGED <<q_cmds, q_host, q_work_dir, q_no_work_dir, q_pty, q_remote>>
    /\ UNCHANGED <<orchVars, streamVars, remoteVars, lateVars>>

\* execute_commands: the same for a list of commands.
ExecuteCommands ==
    /\ q_pc = "idle"
    /\ ~q_no_work_dir /\ ~q_pty
    /\ q_api' = "execute_commands"
    /\ q_ssh_cmd' = ComposeCommands(q_cmds, q_host, q_work_dir)
    /\ q_local' = ShellParse(q_ssh_cmd')
    /\ q_pc' = "local"
    /\ UNCHANGED <<q_cmds, q_host, q_work_dir, q_no_work_dir, q_pty, q_remote>>
    /\ UNCHANGED <<orchVars, streamVars, remoteVars, lateVars>>

\* ssh hands its command argument to the remote login shell.
RemoteShell ==
    /\ q_pc = "local"
    /\ q_local.ok /\ q_local.cmds # <<>>
    /\ q_remote' = ShellParse(q_local.cmds[1][Len(q_local.cmds[1])])
    /\ q_pc' = "remote"
    /\ UNCHANGED <<q_cmds, q_host, q_work_dir, q_no_work_dir, q_pty, q_api,
                   q_ssh_cmd, q_local>>
    /\ UNCHANGED <<orchVars, streamVars, remoteVars, lateVars>>

NextQuote ==
    \/ ExecuteCommand
    \/ ExecuteCommands
    \/ RemoteShell

SpecQuote == InitQuote /\ [][NextQuote]_vars

(***************************************************************************)
(* Streaming execution: a child process writing to two pipes of PipeCap    *)
(* characters, and the reader loop of _execute_with_stream.                *)
(***************************************************************************)
Streams == {"out", "err"}

StreamChars == {"a", "\n", "\r"}

Programs ==
    StringsUpTo({[s |-> st, c |-> ch] : st \in Streams, ch \in StreamChars},
                MaxWrites)

\* stderr of the result returned after an interrupt.
InterruptNote == <<"Command interrupted by user">>

RECURSIVE TranslateNewlines(_)
\* Universal newlines: "\r\n" and "\r" both read as "\n".
TranslateNewlines(t) ==
    IF t = <<>> THEN <<>>
    ELSE IF Head(t) = "\r"
    THEN IF Len(t) >= 2 /\ t[2] = "\n"
         THEN <<"\n">> \o TranslateNewlines(Tail(Tail(t)))
         ELSE <<"\n">> \o TranslateNewlines(Tail(t))
    ELSE <<Head(t)>> \o TranslateNewlines(Tail(t))

\* The text wrapper's incremental decoder (text=True, newline=None): a
\* carriage return ending a chunk is held back until the next chunk or the
\* end of the stream shows whether a line feed follows.
Decode(chunk, pend, final) ==
    LET input == (IF pend THEN <<"\r">> ELSE <<>>) \o chunk
        hold == ~final /\ input # <<>> /\ input[Len(input)] = "\r"
        body == IF hold THEN SubSeq(input, 1, Len(input) - 1) ELSE input
    IN  [text |-> TranslateNewlines(body), pend |-> hold]

HasNewline(t) == \E i \in 1..Len(t) : t[i] = "\n"

FirstNewline(t) == CHOOSE i \in 1..Len(t) : t[i] = "\n" /\ \A j \in 1..(i - 1) : t[j] # "\n"

\* The write end of the child's pipes is closed once the child is gone.
AtEof(st) == s_proc # "running" /\ s_pipe[st] = <<>>

\* stream.readline() on stream st, as far as it gets without waiting:
\* done says whether it returns, line what it returns; pipe and dec are the
\* stream's pipe and text wrapper afterwards.  It waits (no step) when the
\* wrapper holds no complete line, the pipe is empty and the stream is open.
ReadlineBlocked(st) ==
    /\ ~HasNewline(s_dec[st].buf)
    /\ s_pipe[st] = <<>>
    /\ ~AtEof(st)

Readline(st) ==
    LET d == s_dec[st]
    IN  IF HasNewline(d.buf)
        THEN [done |-> TRUE,
              line |-> SubSeq(d.buf, 1, FirstNewline(d.buf)),
              pipe |-> s_pipe[st],
              dec |-> [buf |-> SubSeq(d.buf, FirstNewline(d.buf) + 1, Len(d.buf)),
                       pend |-> d.pend]]
        ELSE LET got == Decode(s_pipe[st], d.pend, AtEof(st))
                 buf2 == d.buf \o got.text
             IN  IF HasNewline(buf2)
                 THEN [done |-> TRUE,
                       line |-> SubSeq(buf2, 1, FirstNewline(buf2)),
                       pipe |-> <<>>,
                       dec |-> [buf |-> SubSeq(buf2, FirstNewline(buf2) + 1,
                                               Len(buf2)),
                                pend |-> got.pend]]
                 ELSE IF AtEof(st)
                 THEN [done |-> TRUE, line |-> buf2, pipe |-> <<>>,
                       dec |-> [buf |-> <<>>, pend |-> FALSE]]
                 ELSE [done |-> FALSE, line |-> <<>>, pipe |-> <<>>,
                       dec |-> [buf |-> buf2, pend |-> got.pend]]

\* stream.read(): everything up to the end of the stream.
ReadAll(st) == s_dec[st].buf \o Decode(s_pipe[st], s_dec[st].pend, TRUE).text

\* `if line:` print it and append it to the stream's list.
Keep(lines, line) == IF line # <<>> THEN Append(lines, line) ELSE lines

InitStream ==
    /\ OrchIdle
    /\ QuoteIdle
    /\ RemoteIdle
    /\ LateIdle
    /\ s_pc = "poll"
    /\ s_select \in BOOLEAN
    /\ s_prog \in Programs
    /\ s_ip = 1
    /\ s_proc = "running"
    /\ s_pipe = [out |-> <<>>, err |-> <<>>]
    /\ s_dec = [out |-> [buf |-> <<>>, pend |-> FALSE],
                err |-> [buf |-> <<>>, pend |-> FALSE]]
    /\ s_ready = <<>>
    /\ output_lines = <<>>
    /\ error_lines = <<>>
    /\ s_echo = [out |-> <<>>, err |-> <<>>]
    /\ s_intr = FALSE
    /\ s_term = FALSE
    /\ s_result = NoResult

\* The child writes its next character; it waits while that pipe is full.
ProcWrite ==
    /\ s_proc = "running"
    /\ s_ip <= Len(s_prog)
    /\ Len(s_pipe[s_prog[s_ip].s]) < PipeCap
    /\ s_pipe' = [s_pipe EXCEPT ![s_prog[s_ip].s] = Append(@, s_prog[s_ip].c)]
    /\ s_ip' = s_ip + 1
    /\ UNCHANGED <<s_pc, s_select, s_prog, s_proc, s_dec, s_ready, output_lines,
                   error_lines, s_echo, s_intr, s_term, s_result>>
    /\ UNCHANGED <<orchVars, quoteVars, remoteVars, lateVars>>

\* The child has written everything and exits.
ProcExit ==
    /\ s_proc = "running"
    /\ s_ip > Len(s_prog)
    /\ s_proc' = "exited"
    /\ UNCHANGED <<s_pc, s_select, s_prog, s_ip, s_pipe, s_dec, s_ready,
                   output_lines, error_lines, s_echo, s_intr, s_term, s_result>>
    /\ UNCHANGED <<orchVars, quoteVars, remoteVars, lateVars>>

\* The child dies of the terminate signal.
ProcTerminated ==
    /\ s_proc = "running"
    /\ s_term
    /\ s_proc' = "exited"
    /\ UNCHANGED <<s_pc, s_select, s_prog, s_ip, s_pipe, s_dec, s_ready,
                   output_lines, error_lines, s_echo, s_intr, s_term, s_result>>
    /\ UNCHANGED <<orchVars, quoteVars, remoteVars, lateVars>>

\* `if process.poll() is not None: break`, else into the try block.
Poll ==
    /\ s_pc = "poll"
    /\ s_pc' = IF s_proc # "running" THEN "drain_out"
               ELSE IF s_select THEN "select" ELSE "fb_out"
    /\ UNCHANGED <<s_select, s_prog, s_ip, s_proc, s_pipe, s_dec, s_ready,
                   output_lines, error_lines, s_echo, s_intr, s_term, s_result>>
    /\ UNCHANGED <<orchVars, quoteVars, remoteVars, lateVars>>

Readable(st) == s_pipe[st] # <<>> \/ s_proc # "running"

\* select.select([stdout, stderr], [], [], 0.1): the readable streams, in the
\* order given; none after the timeout.
Select ==
    /\ s_pc = "select"
    /\ s_ready' = SelectSeq(<<"out", "err">>, Readable)
    /\ s_pc' = IF s_ready' = <<>> THEN "poll" ELSE "serve"
    /\ UNCHANGED <<s_select, s_prog, s_ip, s_proc, s_pipe, s_dec, output_lines,
                   error_lines, s_echo, s_intr, s_term, s_result>>
    /\ UNCHANGED <<orchVars, quoteVars, remoteVars, lateVars>>

\* for stream in ready: line = stream.readline(); print and keep it.
Serve ==
    /\ s_pc = "serve"
    /\ LET st == Head(s_ready)
           r == Readline(st)
       IN  /\ ~ReadlineBlocked(st)
           /\ s_pipe' = [s_pipe EXCEPT ![st] = r.pipe]
           /\ s_dec' = [s_dec EXCEPT ![st] = r.dec]
           /\ IF r.done
              THEN /\ output_lines' = IF st = "out" THEN Keep(output_lines, r.line)
                                      ELSE output_lines
                   /\ error_lines' = IF st = "err" THEN Keep(error_lines, r.line)
                                     ELSE error_lines
                   /\ s_echo' = [s_echo EXCEPT ![st] = @ \o r.line]
                   /\ s_ready' = Tail(s_ready)
                   /\ s_pc' = IF Tail(s_ready) = <<>> THEN "poll" ELSE "serve"
              ELSE UNCHANGED <<output_lines, error_lines, s_echo, s_ready, s_pc>>
    /\ UNCHANGED <<s_select, s_prog, s_ip, s_proc, s_intr, s_term, s_result>>
    /\ UNCHANGED <<orchVars, quoteVars, remoteVars, lateVars>>

\* The except (ImportError, OSError) branch: readline on stdout, then on
\* stderr, whether or not anything is there to read.
Fallback ==
    /\ s_pc \in {"fb_out", "fb_err"}
    /\ LET st == IF s_pc = "fb_out" THEN "out" ELSE "err"
           r == Readline(st)
       IN  /\ ~ReadlineBlocked(st)
           /\ s_pipe' = [s_pipe EXCEPT ![st] = r.pipe]
           /\ s_dec' = [s_dec EXCEPT ![st] = r.dec]
           /\ IF r.done
              THEN /\ output_lines' = IF st = "out" THEN Keep(output_lines, r.line)
                                      ELSE output_lines
                   /\ error_lines' = IF st = "err" THEN Keep(error_lines, r.line)
                                     ELSE error_lines
                   /\ s_echo' = [s_echo EXCEPT ![st] = @ \o r.line]
                   /\ s_pc' = IF st = "out" THEN "fb_err" ELSE "poll"
              ELSE UNCHANGED <<output_lines, error_lines, s_echo, s_pc>>
    /\ UNCHANGED <<s_select, s_prog, s_ip, s_proc, s_ready, s_intr, s_term,
                   s_result>>
    /\ UNCHANGED <<orchVars, quoteVars, remoteVars, lateVars>>

\* remaining_stdout = process.stdout.read(), printed and kept if not empty.
DrainOut ==
    /\ s_pc = "drain_out"
    /\ s_proc # "running"
    /\ output_lines' = Keep(output_lines, ReadAll("out"))
    /\ s_echo' = [s_echo EXCEPT !["out"] = @ \o ReadAll("out")]
    /\ s_pipe' = [s_pipe EXCEPT !["out"] = <<>>]
    /\ s_dec' = [s_dec EXCEPT !["out"] = [buf |-> <<>>, pend |-> FALSE]]
    /\ s_pc' = "drain_err"
    /\ UNCHANGED <<s_select, s_prog, s_ip, s_proc, s_ready, error_lines, s_intr,
                   s_term, s_result>>
    /\ UNCHANGED <<orchVars, quoteVars, remoteVars, lateVars>>

\* remaining_stderr = process.stderr.read(), printed and kept if not empty.
DrainErr ==
    /\ s_pc = "drain_err"
    /\ s_proc # "running"
    /\ error_lines' = Keep(error_lines, ReadAll("err"))
    /\ s_echo' = [s_echo EXCEPT !["err"] = @ \o ReadAll("err")]
    /\ s_pipe' = [s_pipe EXCEPT !["err"] = <<>>]
    /\ s_dec' = [s_dec EXCEPT !["err"] = [buf |-> <<>>, pend |-> FALSE]]
    /\ s_pc' = "wait"
    /\ UNCHANGED <<s_select, s_prog, s_ip, s_proc, s_ready, output_lines, s_intr,
                   s_term, s_result>>
    /\ UNCHANGED <<orchVars, quoteVars, remoteVars, lateVars>>

\* return_code = process.wait(); return CompletedProcess(...)
Return ==
    /\ s_pc = "wait"
    /\ s_proc # "running"
    /\ s_result' = [returncode |-> 0,
                    stdout |-> Concat(output_lines),
                    stderr |-> Concat(error_lines)]
    /\ s_pc' = "returned"
    /\ UNCHANGED <<s_select, s_prog, s_ip, s_proc, s_pipe, s_dec, s_ready,
                   output_lines, error_lines, s_echo, s_intr, s_term>>
    /\ UNCHANGED <<orchVars, quoteVars, remoteVars, lateVars>>

\* Positions inside the try block, whose KeyboardInterrupt is caught.
InTry(p) == p \in {"poll", "select", "serve", "fb_out", "fb_err"}

\* The caller interrupts (KeyboardInterrupt).  Inside the try block the
\* handler prints a note and calls process.terminate(); elsewhere the
\* exception leaves the call.
Interrupt ==
    /\ ~s_intr
    /\ s_pc \in {"poll", "select", "serve", "fb_out", "fb_err", "drain_out",
                 "drain_err", "wait"}
    /\ s_intr' = TRUE
    /\ IF InTry(s_pc)
       THEN s_term' = TRUE /\ s_pc' = "int_wait"
       ELSE s_term' = s_term /\ s_pc' = "raised"
    /\ UNCHANGED <<s_select, s_prog, s_ip, s_proc, s_pipe, s_dec, s_ready,
                   output_lines, error_lines, s_echo, s_result>>
    /\ UNCHANGED <<orchVars, quoteVars, remoteVars, lateVars>>

InterruptedResult ==
    [returncode |-> -1, stdout |-> Concat(output_lines), stderr |-> InterruptNote]

\* process.wait(timeout=5) sees the child gone: return the interrupted result.
InterruptWaitDone ==
    /\ s_pc = "int_wait"
    /\ s_proc # "running"
    /\ s_result' = InterruptedResult
    /\ s_pc' = "returned"
    /\ UNCHANGED <<s_select, s_prog, s_ip, s_proc, s_pipe, s_dec, s_ready,
                   output_lines, error_lines, s_echo, s_intr, s_term>>
    /\ UNCHANGED <<orchVars, quoteVars, remoteVars, lateVars>>

\* process.wait(timeout=5) times out: process.kill(), then return.
InterruptWaitTimeout ==
    /\ s_pc = "int_wait"
    /\ s_proc = "running"
    /\ s_proc' = "killed"
    /\ s_result' = InterruptedResult
    /\ s_pc' = "returned"
    /\ UNCHANGED <<s_select, s_prog, s_ip, s_pipe, s_dec, s_ready, output_lines,
                   error_lines, s_echo, s_intr, s_term>>
    /\ UNCHANGED <<orchVars, quoteVars, remoteVars, lateVars>>

NextStream ==
    \/ ProcWrite
    \/ ProcExit
    \/ ProcTerminated
    \/ Poll
    \/ Select
    \/ Serve
    \/ Fallback
    \/ DrainOut
    \/ DrainErr
    \/ Return
    \/ Interrupt
    \/ InterruptWaitDone
    \/ InterruptWaitTimeout

SpecStream == InitStream /\ [][NextStream]_vars

(***************************************************************************)
(* Remote start: start_wandb_agents_remote validates the connection,       *)
(* prints a summary and runs the setup script through execute_command.     *)
(* A printed line is a sequence of text pieces and token characters.        *)
(***************************************************************************)
TokenAlphabet == {"k", "x"}

\* How one ssh invocation ends: connected, host unreachable, authentication
\* refused.
ConnOutcomes == {"ok", "unreachable", "auth"}

\* What ssh writes to stderr when it cannot connect.
TransportError(conn) ==
    IF conn = "unreachable" THEN <<"ssh: connect to host h port 22: No route to host">>
    ELSE <<"h: Permission denied (publickey).">>

\* A `-> bool` method's return value.
BoolReturn(api, conn, ok) ==
    [api |-> api, conn |-> conn, kind |-> "bool", ok |-> ok, returncode |-> 0,
     stderr |-> <<>>]

\* The CompletedProcess of subprocess.run(ssh_cmd, ...): ssh exits 255 with
\* its own message when it cannot connect, else with the remote status.
ResultReturn(api, conn, remoteOk) ==
    [api |-> api, conn |-> conn, kind |-> "result",
     ok |-> (conn = "ok" /\ remoteOk),
     returncode |-> IF conn # "ok" THEN 255 ELSE IF remoteOk THEN 0 ELSE 1,
     stderr |-> IF conn # "ok" THEN TransportError(conn) ELSE <<>>]

\* '***' + wandb_key[-4:] if len(wandb_key) > 4 else '***'
MaskedKey(key) ==
    IF Len(key) > 4 THEN <<"*", "*", "*">> \o SubSeq(key, Len(key) - 3, Len(key))
    ELSE <<"*", "*", "*">>

\* setup_script of create_tmux_session_remote, as far as the key goes.
SetupScript(key) ==
    <<"set -e; ...; FULL_CMD=\"export WANDB_API_KEY=">> \o key
        \o <<" && CUDA_VISIBLE_DEVICES=$gpu_id ...\"; ...">>

\* The lines execute_command prints for a captured (not streamed) command.
CapturedCommandLines(command, res) ==
    (IF r_verbose THEN << <<"Executing on h: ">> \o command,
                          <<"Command completed with return code">> >>
     ELSE <<>>)
    \o (IF res.returncode # 0 THEN << <<"Command failed: ">> \o res.stderr >>
        ELSE <<>>)

\* The lines execute_command prints for a streamed command.
StreamedCommandLines(command) ==
    IF r_verbose THEN << <<"Executing on h: ">> \o command,
                         <<"Command completed with return code">> >>
    ELSE <<>>

InitRemote ==
    /\ OrchIdle
    /\ QuoteIdle
    /\ StreamIdle
    /\ LateIdle
    /\ r_pc = "test"
    /\ r_verbose \in BOOLEAN
    /\ r_token \in StringsUpTo(TokenAlphabet, MaxTokenLen)
    /\ r_printed = <<>>
    /\ r_last = NoReturn
    /\ r_ret = "none"

\* validate_connection, first step: SSHExecutor.test_connection.
RemoteTestConnection ==
    /\ r_pc = "test"
    /\ \E conn \in ConnOutcomes :
        /\ r_last' = BoolReturn("test_connection", conn, conn = "ok")
        /\ IF conn = "ok"
           THEN /\ r_printed' = r_printed
                        \o (IF r_verbose THEN << <<"SSH connection to h successful">> >>
                            ELSE <<>>)
                /\ r_pc' = "checkdir"
                /\ r_ret' = r_ret
           ELSE /\ r_printed' = r_printed \o << <<"SSH connection to h failed">> >>
                        \o (IF r_verbose
                            THEN << <<"   Error: ">> \o TransportError(conn) >>
                            ELSE <<>>)
                /\ r_pc' = "done"
                /\ r_ret' = "false"
    /\ UNCHANGED <<r_verbose, r_token>>
    /\ UNCHANGED <<orchVars, quoteVars, streamVars, lateVars>>

\* validate_connection, second step: check_directory(work_dir), that is
\* execute_command("test -d ...") and `returncode == 0`.
RemoteCheckDirectory ==
    /\ r_pc = "checkdir"
    /\ \E conn \in ConnOutcomes, exists \in BOOLEAN :
        LET res == ResultReturn("execute_command", conn, exists)
        IN  /\ r_last' = res
            /\ IF res.returncode = 0
               THEN /\ r_printed' = r_printed
                            \o CapturedCommandLines(<<"test -d w">>, res)
                    /\ r_pc' = "summary"
               ELSE /\ r_printed' = r_printed
                            \o CapturedCommandLines(<<"test -d w">>, res)
                            \o << <<"Work directory w doesn't exist, creating...">> >>
                    /\ r_pc' = "clone"
    /\ UNCHANGED <<r_verbose, r_token, r_ret>>
    /\ UNCHANGED <<orchVars, quoteVars, streamVars, lateVars>>

\* validate_connection, last step: create_directory_by_git, that is
\* execute_command("git clone ...", no_work_dir=True) and `returncode == 0`.
RemoteCloneDirectory ==
    /\ r_pc = "clone"
    /\ \E conn \in ConnOutcomes, cloned \in BOOLEAN :
        LET res == ResultReturn("execute_command", conn, cloned)
        IN  /\ r_last' = res
            /\ r_printed' = r_printed
                    \o CapturedCommandLines(<<"git clone u w">>, res)
            /\ IF res.returncode = 0
               THEN r_pc' = "summary" /\ r_ret' = r_ret
               ELSE r_pc' = "done" /\ r_ret' = "false"
    /\ UNCHANGED <<r_verbose, r_token>>
    /\ UNCHANGED <<orchVars, quoteVars, streamVars, lateVars>>

\* Lines 770-784: without a key the call ends; else the summary is printed,
\* the key masked.
RemotePrintSummary ==
    /\ r_pc = "summary"
    /\ IF r_token = <<>>
       THEN /\ r_printed' = r_printed
                    \o << <<"WANDB_API_KEY not found in local config or environment">> >>
            /\ r_pc' = "done"
            /\ r_ret' = "false"
       ELSE /\ r_printed' = r_printed
                    \o << <<"Starting remote wandb agents...">>,
                          <<"WANDB key: ">> \o MaskedKey(r_token) >>
            /\ r_pc' = "script"
            /\ r_ret' = r_ret
    /\ UNCHANGED <<r_verbose, r_token, r_last>>
    /\ UNCHANGED <<orchVars, quoteVars, streamVars, lateVars>>

\* create_tmux_session_remote: execute_command(setup_script,
\* stream_output=True) and the verdict on its return code.
RemoteRunSetupScript ==
    /\ r_pc = "script"
    /\ \E conn \in ConnOutcomes, scriptOk \in BOOLEAN :
        LET res == ResultReturn("execute_command", conn, scriptOk)
        IN  /\ r_last' = res
            /\ r_printed' = r_printed
                    \o << <<"Creating tmux session...">> >>
                    \o StreamedCommandLines(SetupScript(r_token))
                    \o (IF res.returncode # 0
                        THEN << <<"Failed to create tmux session and setup processes">> >>
                        ELSE << <<"Tmux session created successfully">>,
                                <<"Remote wandb agents started successfully!">> >>)
            /\ r_ret' = IF res.returncode = 0 THEN "true" ELSE "false"
            /\ r_pc' = "done"
    /\ UNCHANGED <<r_verbose, r_token>>
    /\ UNCHANGED <<orchVars, quoteVars, streamVars, lateVars>>

NextRemote ==
    \/ RemoteTestConnection
    \/ RemoteCheckDirectory
    \/ RemoteCloneDirectory
    \/ RemotePrintSummary
    \/ RemoteRunSetupScript

SpecRemote == InitRemote /\ [][NextRemote]_vars

(***************************************************************************)
(* Calls sharing one tmux server: session names and what tmux does with    *)
(* them.                                                                   *)
(***************************************************************************)
Calls == {"c1", "c2"}

\* Tokens (sweep ids) the calls are given.
SweepIds == { <<"s">>, <<"e", "/", "s">>, <<"s", "/">> }

\* ProjectStarter._generate_session_name:
\* sweep_id.split("/")[-1] if "/" in sweep_id else sweep_id
ShortSweepId(sweep_id) == Split(sweep_id, "/")[Len(Split(sweep_id, "/"))]

\* TmuxManager.extract_sweep_id: re.search(r'([^/]+)$', command), "unknown"
\* without a match.
ExtractSweepId(command) ==
    IF ShortSweepId(command) = <<>> THEN <<"u", "n", "k", "n", "o", "w", "n">>
    ELSE ShortSweepId(command)

\* strftime("%m%d%H%M") of the minute read.
Timestamp(minute) == StrOfNat(minute)

\* f"{short_sweep_id}_{timestamp}"; in the remote script
\* $(echo "{sweep_id}" | rev | cut -d"/" -f1 | rev)_$(date +"%m%d%H%M")
SessionName(v, sweep_id, minute) ==
    (IF v = "tmuxmgr" THEN ExtractSweepId(sweep_id) ELSE ShortSweepId(sweep_id))
        \o <<"_">> \o Timestamp(minute)

DuplicateSessionNever(name, existing) == FALSE

\* `tmux new-session -d -s <name>` fails with "duplicate session" when the
\* server has a session of that name.
DuplicateSession(name, existing) == name \in existing

\* Does a failing per-pane command end the call?  (&& chain, set -e)
AbortsOnPaneFailure(v) == v \in {"tmuxmgr", "remote"}

RECURSIVE FailuresOf(_)
\* Per-pane commands that failed so far, over the calls in cs.
FailuresOf(cs) ==
    IF cs = {} THEN 0
    ELSE LET c == CHOOSE x \in cs : TRUE
         IN  n_call[c].nfail + FailuresOf(cs \ {c})

CallOutcomes(c) == IF FailuresOf(Calls) < MaxFailures THEN BOOLEAN ELSE {TRUE}

AfterInterruptKills(sessions, name) ==
    [m \in DOMAIN sessions \ {name} |-> sessions[m]]

\* What is left on the tmux server when the caller interrupts the call: no
\* handler of the call issues a tmux command, and the session, made with
\* new-session -d, is not tied to the connection that is closed.
AfterInterrupt(sessions, name) == sessions

CallInits ==
    { [pc |-> "start", variant |-> v, sweep_id |-> t, n |-> n, name |-> <<>>,
       collided |-> FALSE, issued |-> <<>>, sent |-> 0, nfail |-> 0,
       result |-> "none"] :
        v \in {"ssh", "tmuxmgr", "remote"}, t \in SweepIds, n \in 0..MaxProcs }

InitSess ==
    /\ n_clock = 0
    /\ n_sessions = <<>>
    /\ n_call \in [Calls -> CallInits]
    /\ n_call["c1"].sweep_id = <<"e", "/", "s">>
    /\ OrchIdle
    /\ QuoteIdle
    /\ StreamIdle
    /\ RemoteIdle
    /\ ShareIdle
    /\ EnvIdle
    /\ GpuModeIdle
    /\ SyncIdle
    /\ K8sIdle

\* A minute passes (of interest while a call has yet to read the clock).
ClockTick ==
    /\ n_clock < MaxMinutes
    /\ \E c \in Calls : n_call[c].pc = "start"
    /\ n_clock' = n_clock + 1
    /\ UNCHANGED <<n_sessions, n_call>>
    /\ UNCHANGED sessRest

\* session_name = self._generate_session_name(sweep_id)
CallNameSession(c) ==
    /\ n_call[c].pc = "start"
    /\ n_call' = [n_call EXCEPT
                    ![c].name = SessionName(n_call[c].variant,
                                            n_call[c].sweep_id, n_clock),
                    ![c].pc = "session"]
    /\ UNCHANGED <<n_clock, n_sessions>>
    /\ UNCHANGED sessRest

\* tmux new-session -d -s <name>, and the gate after it (`if not result.ok:
\* return False`, the && of the chained script).
CallNewSession(c) ==
    LET r == n_call[c]
        ok == ~DuplicateSession(r.name, DOMAIN n_sessions)
    IN  /\ r.pc = "session"
        /\ n_sessions' =
             IF ok
             THEN [m \in DOMAIN n_sessions \cup {r.name} |->
                     IF m = r.name THEN [owner |-> c, keys |-> <<>>]
                     ELSE n_sessions[m]]
             ELSE n_sessions
        /\ n_call' = [n_call EXCEPT
                        ![c].issued = Append(@, "new-session"),
                        ![c].collided = r.name \in DOMAIN n_sessions,
                        ![c].pc = IF SessionGate(ok)
                                  THEN IF r.n > 0 THEN BodyStart(TRUE)
                                                  ELSE "finish"
                                  ELSE "done",
                        ![c].result = IF SessionGate(ok) THEN @ ELSE "false"]
        /\ UNCHANGED n_clock
        /\ UNCHANGED sessRest

\* tmux split-window -t <name>
CallSplitWindow(c) ==
    /\ n_call[c].pc = "split"
    /\ \E ok \in CallOutcomes(c) :
         n_call' =
           IF ~ok /\ AbortsOnPaneFailure(n_call[c].variant)
           THEN [n_call EXCEPT ![c].issued = Append(@, "split-window"),
                               ![c].nfail = @ + 1,
                               ![c].pc = "done", ![c].result = "false"]
           ELSE [n_call EXCEPT ![c].issued = Append(@, "split-window"),
                               ![c].nfail = IF ok THEN @ ELSE @ + 1,
                               ![c].pc = "layout"]
    /\ UNCHANGED <<n_clock, n_sessions>>
    /\ UNCHANGED sessRest

\* tmux select-layout -t <name> tiled
CallSelectLayout(c) ==
    /\ n_call[c].pc = "layout"
    /\ \E ok \in CallOutcomes(c) :
         n_call' =
           IF ~ok /\ AbortsOnPaneFailure(n_call[c].variant)
           THEN [n_call EXCEPT ![c].issued = Append(@, "select-layout"),
                               ![c].nfail = @ + 1,
                               ![c].pc = "done", ![c].result = "false"]
           ELSE [n_call EXCEPT ![c].issued = Append(@, "select-layout"),
                               ![c].nfail = IF ok THEN @ ELSE @ + 1,
                               ![c].pc = "send"]
    /\ UNCHANGED <<n_clock, n_sessions>>
    /\ UNCHANGED sessRest

\* tmux send-keys -t <name> "<command>" C-m: the keys go to the session of
\* that name.
CallSendKeys(c) ==
    LET r == n_call[c]
    IN  /\ r.pc = "send"
        /\ \E ok \in CallOutcomes(c) :
            /\ n_sessions' =
                 IF ok /\ r.name \in DOMAIN n_sessions
                 THEN [n_sessions EXCEPT
                         ![r.name].keys = Append(@, [from |-> c, idx |-> r.sent])]
                 ELSE n_sessions
            /\ n_call' =
                 IF ~ok /\ AbortsOnPaneFailure(r.variant)
                 THEN [n_call EXCEPT ![c].issued = Append(@, "send-keys"),
                                     ![c].nfail = @ + 1,
                                     ![c].pc = "done", ![c].result = "false"]
                 ELSE [n_call EXCEPT
                         ![c].issued = Append(@, "send-keys"),
                         ![c].sent = r.sent + 1,
                         ![c].nfail = IF ok THEN @ ELSE @ + 1,
                         ![c].pc = IF r.sent + 1 < r.n THEN BodyStart(FALSE)
                                                       ELSE "finish"]
        /\ UNCHANGED n_clock
        /\ UNCHANGED sessRest

\* The loops are over: report success.
CallFinish(c) ==
    /\ n_call[c].pc = "finish"
    /\ n_call' = [n_call EXCEPT ![c].pc = "done", ![c].result = "true"]
    /\ UNCHANGED <<n_clock, n_sessions>>
    /\ UNCHANGED sessRest

\* The caller interrupts the call (KeyboardInterrupt): run() and the local
\* script propagate it; for the streamed remote script the ssh client is
\* terminated, which ends the script where it is.
CallInterrupt(c) ==
    /\ n_call[c].pc \notin {"start", "done"}
    /\ n_call' = [n_call EXCEPT ![c].pc = "done", ![c].result = "interrupted"]
    /\ n_sessions' = AfterInterrupt(n_sessions, n_call[c].name)
    /\ UNCHANGED n_clock
    /\ UNCHANGED sessRest

NextSess ==
    \/ ClockTick
    \/ \E c \in Calls : CallNameSession(c)
    \/ \E c \in Calls : CallNewSession(c)
    \/ \E c \in Calls : CallSplitWindow(c)
    \/ \E c \in Calls : CallSelectLayout(c)
    \/ \E c \in Calls : CallSendKeys(c)
    \/ \E c \in Calls : CallFinish(c)
    \/ \E c \in Calls : CallInterrupt(c)

SpecSess == InitSess /\ [][NextSess]_vars

(***************************************************************************)
(* Two calls in one process: the working directory and the fixed-path      *)
(* script files.                                                           *)
(***************************************************************************)
ShareHosts == {"h1", "h2"}

\* script_path = '/tmp/slurm_job.sh'
SlurmScriptPath == "/tmp/slurm_job.sh"

\* remote_script_path = f"/tmp/{script_name}", script_name = "remote_script.sh",
\* on the call's host.
RemoteScriptPath(host) == host

\* self.work_dir of the call's target: each target has its own.
WorkDirOf(c) == <<"w", c>>

ShareInits ==
    { [kind |-> k, host |-> h, pc |-> "begin", original_cwd |-> "cwd0",
       seen |-> "none"] :
        k \in {"start", "slurm", "script"}, h \in ShareHosts }

InitShare ==
    /\ h_cwd = "cwd0"
    /\ h_files = [f \in {SlurmScriptPath} \cup ShareHosts |-> "none"]
    /\ h_call \in [Calls -> ShareInits]
    /\ \A c \in Calls : h_call[c].kind # "script" => h_call[c].host = "h1"
    /\ OrchIdle
    /\ QuoteIdle
    /\ StreamIdle
    /\ RemoteIdle
    /\ SessIdle
    /\ EnvIdle
    /\ GpuModeIdle
    /\ SyncIdle
    /\ K8sIdle

\* StartManager.start: os.chdir(self.work_dir)
StartChdir(c) ==
    /\ h_call[c].kind = "start" /\ h_call[c].pc = "begin"
    /\ h_cwd' = WorkDirOf(c)
    /\ h_call' = [h_call EXCEPT ![c].pc = "session"]
    /\ UNCHANGED h_files
    /\ UNCHANGED shareRest

\* StartManager.start: the key, the sweep file and tmux new-session, whose
\* session starts in the directory the process is in.
StartCreateSession(c) ==
    /\ h_call[c].kind = "start" /\ h_call[c].pc = "session"
    /\ h_call' = [h_call EXCEPT ![c].seen = h_cwd, ![c].pc = "restore"]
    /\ UNCHANGED <<h_cwd, h_files>>
    /\ UNCHANGED shareRest

\* StartManager.start: finally: os.chdir(self.original_cwd)
StartRestore(c) ==
    /\ h_call[c].kind = "start" /\ h_call[c].pc = "restore"
    /\ h_cwd' = h_call[c].original_cwd
    /\ h_call' = [h_call EXCEPT ![c].pc = "done"]
    /\ UNCHANGED h_files
    /\ UNCHANGED shareRest

\* SlurmMode.execute: write the script to /tmp/slurm_job.sh
SlurmWrite(c) ==
    /\ h_call[c].kind = "slurm" /\ h_call[c].pc = "begin"
    /\ h_files' = [h_files EXCEPT ![SlurmScriptPath] = c]
    /\ h_call' = [h_call EXCEPT ![c].pc = "submit"]
    /\ UNCHANGED h_cwd
    /\ UNCHANGED shareRest

\* SlurmMode.execute: sbatch /tmp/slurm_job.sh
SlurmSubmit(c) ==
    /\ h_call[c].kind = "slurm" /\ h_call[c].pc = "submit"
    /\ h_call' = [h_call EXCEPT ![c].seen = h_files[SlurmScriptPath],
                                ![c].pc = "done"]
    /\ UNCHANGED <<h_cwd, h_files>>
    /\ UNCHANGED shareRest

\* SSHExecutor.execute_script: scp the script to host:/tmp/remote_script.sh
ScriptUpload(c) ==
    /\ h_call[c].kind = "script" /\ h_call[c].pc = "begin"
    /\ h_files' = [h_files EXCEPT ![RemoteScriptPath(h_call[c].host)] = c]
    /\ h_call' = [h_call EXCEPT ![c].pc = "exec"]
    /\ UNCHANGED h_cwd
    /\ UNCHANGED shareRest

\* SSHExecutor.execute_script: ssh host 'cd work_dir && bash /tmp/remote_script.sh'
ScriptExec(c) ==
    /\ h_call[c].kind = "script" /\ h_call[c].pc = "exec"
    /\ h_call' = [h_call EXCEPT
                    ![c].seen = h_files[RemoteScriptPath(h_call[c].host)],
                    ![c].pc = "cleanup"]
    /\ UNCHANGED <<h_cwd, h_files>>
    /\ UNCHANGED shareRest

\* SSHExecutor.execute_script: ssh host 'rm -f /tmp/remote_script.sh'
ScriptCleanup(c) ==
    /\ h_call[c].kind = "script" /\ h_call[c].pc = "cleanup"
    /\ h_files' = [h_files EXCEPT ![RemoteScriptPath(h_call[c].host)] = "none"]
    /\ h_call' = [h_call EXCEPT ![c].pc = "done"]
    /\ UNCHANGED h_cwd
    /\ UNCHANGED shareRest

NextShare ==
    \/ \E c \in Calls : StartChdir(c)
    \/ \E c \in Calls : StartCreateSession(c)
    \/ \E c \in Calls : StartRestore(c)
    \/ \E c \in Calls : SlurmWrite(c)
    \/ \E c \in Calls : SlurmSubmit(c)
    \/ \E c \in Calls : ScriptUpload(c)
    \/ \E c \in Calls : ScriptExec(c)
    \/ \E c \in Calls : ScriptCleanup(c)

SpecShare == InitShare /\ [][NextShare]_vars

(***************************************************************************)
(* Environment exports in front of a command.                              *)
(***************************************************************************)
EnvKeys == {"A", "B", "C"}

EnvImpls == {"ProjectStarter", "ProjectSyncAndStart", "K8sServer"}

EnvCmds == {"cmd", "git fetch"}

\* env_vars: a dict, its keys distinct, iterated in insertion order.
EnvDicts ==
    { ks \in StringsUpTo(EnvKeys, MaxEnvVars) :
        \A i, j \in 1..Len(ks) : i # j => ks[i] # ks[j] }

\* f'export {key}={value} && '
Export(key) == [kind |-> "export", key |-> key]

Wrapped(cmd) == [kind |-> "cmd", key |-> cmd]

RECURSIVE AppendExports(_, _)
\* for key, value in env_vars.items(): env_cmd += f'export {key}="{value}" && '
AppendExports(acc, ks) ==
    IF ks = <<>> THEN acc
    ELSE AppendExports(Append(acc, Export(Head(ks))), Tail(ks))

RECURSIVE PrependExports(_, _)
\* for key, value in env_vars.items():
\*     base_cmd = f'export {key}={value} && {base_cmd}'
PrependExports(acc, ks) ==
    IF ks = <<>> THEN acc
    ELSE PrependExports(<<Export(Head(ks))>> \o acc, Tail(ks))

\* ProjectStarter._with_env
WithEnv(cmd, ks) ==
    AppendExports(<<>>, ks) \o <<Export("PATH"), Wrapped(cmd)>>

\* ProjectSyncAndStart._with_env_vars
SyncStartWithEnvVars(cmd, ks) == PrependExports(<<Wrapped(cmd)>>, ks)

\* K8sServer._with_env_vars
K8sWithEnvVars(cmd, ks) == AppendExports(<<>>, ks) \o <<Wrapped(cmd)>>

InitEnv ==
    /\ e_pc = "call"
    /\ e_impl \in EnvImpls
    /\ e_env_vars \in EnvDicts
    /\ e_cmd \in EnvCmds
    /\ e_out = <<>>
    /\ OrchIdle
    /\ QuoteIdle
    /\ StreamIdle
    /\ RemoteIdle
    /\ SessIdle
    /\ ShareIdle
    /\ GpuModeIdle
    /\ SyncIdle
    /\ K8sIdle

\* The method is called.
ComposeWithEnv ==
    /\ e_pc = "call"
    /\ e_out' = CASE e_impl = "ProjectStarter" -> WithEnv(e_cmd, e_env_vars)
                  [] e_impl = "ProjectSyncAndStart"
                        -> SyncStartWithEnvVars(e_cmd, e_env_vars)
                  [] e_impl = "K8sServer" -> K8sWithEnvVars(e_cmd, e_env_vars)
    /\ e_pc' = "done"
    /\ UNCHANGED <<e_impl, e_env_vars, e_cmd>>
    /\ UNCHANGED envRest

NextEnv == ComposeWithEnv

SpecEnv == InitEnv /\ [][NextEnv]_vars

(***************************************************************************)
(* The Kubernetes start script.                                            *)
(***************************************************************************)
\* The shell has no CUDA_VISIBLE_DEVICES exported.
NoCuda == -1

\* get_gpu_count: $(nvidia-smi --list-gpus | wc -l) when nvidia-smi is found,
\* 0 otherwise.
GetGpuCount == IF k_tool THEN k_listed ELSE 0

\* total_processes=$((gpu_count * num_processes)); the CPU branch starts
\* num_processes.
TotalProcesses(count) ==
    IF count = 0 THEN k_num_processes ELSE count * k_num_processes

GpuOfProcessFirst(i, count) == 0

\* gpu_id=$((i % gpu_count))
GpuOfProcess(i, count) == i % count

\* `wait $pid` returns when that process has exited.
WaitReturns(p) == p.exited

InitK8s ==
    /\ k_pc = "detect"
    /\ k_tool \in BOOLEAN
    /\ k_listed \in 0..MaxGpus
    /\ k_num_processes \in 0..MaxProcs
    /\ k_gpu_count = 0
    /\ k_cuda = NoCuda
    /\ k_i = 0
    /\ k_procs = <<>>
    /\ k_w = 0
    /\ OrchIdle
    /\ QuoteIdle
    /\ StreamIdle
    /\ RemoteIdle
    /\ SessIdle
    /\ ShareIdle
    /\ EnvIdle
    /\ GpuModeIdle
    /\ SyncIdle

\* gpu_count=$(get_gpu_count)
K8sDetect ==
    /\ k_pc = "detect"
    /\ k_gpu_count' = GetGpuCount
    /\ k_pc' = IF TotalProcesses(GetGpuCount) > 0 THEN "loop" ELSE "wait"
    /\ UNCHANGED <<k_tool, k_listed, k_num_processes, k_cuda, k_i, k_procs, k_w>>
    /\ UNCHANGED k8sRest

\* One iteration of the start loop: (GPU branch) export $cuda_var=$gpu_id,
\* then `{base_cmd} &` and pids[$i]=$!.
K8sStartProcess ==
    /\ k_pc = "loop"
    /\ LET cuda == IF k_gpu_count = 0 THEN k_cuda
                   ELSE GpuOfProcess(k_i, k_gpu_count)
       IN  /\ k_cuda' = cuda
           /\ k_procs' = Append(k_procs, [cuda |-> cuda, exited |-> FALSE])
    /\ k_i' = k_i + 1
    /\ k_pc' = IF k_i + 1 < TotalProcesses(k_gpu_count) THEN "loop" ELSE "wait"
    /\ UNCHANGED <<k_tool, k_listed, k_num_processes, k_gpu_count, k_w>>
    /\ UNCHANGED k8sRest

\* A started process exits.
K8sProcessExits ==
    /\ \E p \in 1..Len(k_procs) :
        /\ ~k_procs[p].exited
        /\ k_procs' = [k_procs EXCEPT ![p].exited = TRUE]
    /\ UNCHANGED <<k_pc, k_tool, k_listed, k_num_processes, k_gpu_count, k_cuda,
                   k_i, k_w>>
    /\ UNCHANGED k8sRest

\* for pid in "${pids[@]}"; do wait $pid; done
K8sWait ==
    /\ k_pc = "wait"
    /\ k_w < Len(k_procs)
    /\ WaitReturns(k_procs[k_w + 1])
    /\ k_w' = k_w + 1
    /\ UNCHANGED <<k_pc, k_tool, k_listed, k_num_processes, k_gpu_count, k_cuda,
                   k_i, k_procs>>
    /\ UNCHANGED k8sRest

\* echo "Job execution finished"
K8sFinish ==
    /\ k_pc = "wait"
    /\ k_w = Len(k_procs)
    /\ k_pc' = "done"
    /\ UNCHANGED <<k_tool, k_listed, k_num_processes, k_gpu_count, k_cuda,
                   k_i, k_procs, k_w>>
    /\ UNCHANGED k8sRest

NextK8s ==
    \/ K8sDetect
    \/ K8sStartProcess
    \/ K8sProcessExits
    \/ K8sWait
    \/ K8sFinish

SpecK8s == InitK8s /\ [][NextK8s]_vars

(***************************************************************************)
(* RemoteGpuMode: the servers are tried in turn.                           *)
(***************************************************************************)
RECURSIVE ChainKinds(_)
\* The commands TmuxManager.create_tmux_session joins with && for n entries.
ChainKinds(n) ==
    IF n = 0 THEN <<"new-session">>
    ELSE IF n = 1 THEN <<"new-session", "send-keys">>
    ELSE ChainKinds(n - 1) \o <<"split-window", "select-layout", "send-keys">>

\* The send-keys commands of the chain that ran before command `failAt`
\* failed (all of them when none fails): each started a worker.
WorkersStarted(n, failAt) ==
    LET ran == IF failAt = 0 THEN ChainKinds(n)
               ELSE SubSeq(ChainKinds(n), 1, failAt - 1)
    IN  Len(SelectSeq(ran, LAMBDA k : k = "send-keys"))

\* result.returncode == 0 of the ssh heredoc: the remote shell's `exit`
\* hands back the status of the last command, the tmux chain.
ScriptSucceeds(srv) == srv.failAt = 0

ServerConfigs ==
    { [reach |-> FALSE, n |-> 1, failAt |-> 0] }
    \cup { [reach |-> TRUE, n |-> n, failAt |-> f] :
             n \in 1..MaxProcs, f \in 0..(3 * MaxProcs - 1) }

InitGpuMode ==
    /\ g_pc = "test"
    /\ g_servers \in { ss \in StringsUpTo(ServerConfigs, MaxServers) :
                         \A i \in 1..Len(ss) :
                            ss[i].failAt <= Len(ChainKinds(ss[i].n)) }
    /\ g_idx = 1
    /\ g_contacted = <<>>
    /\ g_started = [i \in 1..Len(g_servers) |-> 0]
    /\ g_ret = "none"
    /\ OrchIdle
    /\ QuoteIdle
    /\ StreamIdle
    /\ RemoteIdle
    /\ SessIdle
    /\ ShareIdle
    /\ EnvIdle
    /\ SyncIdle
    /\ K8sIdle

\* `if not servers: return False`, and the end of the loop over the servers.
GpuModeNoServerLeft ==
    /\ g_pc = "test"
    /\ g_idx > Len(g_servers)
    /\ g_pc' = "done"
    /\ g_ret' = "false"
    /\ UNCHANGED <<g_servers, g_idx, g_contacted, g_started>>
    /\ UNCHANGED gpuModeRest

\* _try_execute_on_server: ssh -o ConnectTimeout=5 <host> echo ...
GpuModeTestConnection ==
    /\ g_pc = "test"
    /\ g_idx <= Len(g_servers)
    /\ g_contacted' = Append(g_contacted, g_idx)
    /\ IF g_servers[g_idx].reach
       THEN g_pc' = "run" /\ g_idx' = g_idx
       ELSE g_pc' = "test" /\ g_idx' = g_idx + 1
    /\ UNCHANGED <<g_servers, g_started, g_ret>>
    /\ UNCHANGED gpuModeRest

\* _try_execute_on_server: the heredoc with the tmux chain is run on the
\* server; execute returns True when it succeeded, else goes on.
GpuModeRunScript ==
    /\ g_pc = "run"
    /\ g_started' = [g_started EXCEPT
                       ![g_idx] = WorkersStarted(g_servers[g_idx].n,
                                                 g_servers[g_idx].failAt)]
    /\ IF ScriptSucceeds(g_servers[g_idx])
       THEN g_pc' = "done" /\ g_ret' = "true" /\ g_idx' = g_idx
       ELSE g_pc' = "test" /\ g_ret' = g_ret /\ g_idx' = g_idx + 1
    /\ UNCHANGED <<g_servers, g_contacted>>
    /\ UNCHANGED gpuModeRest

NextGpuMode ==
    \/ GpuModeNoServerLeft
    \/ GpuModeTestConnection
    \/ GpuModeRunScript

SpecGpuMode == InitGpuMode /\ [][NextGpuMode]_vars

(***************************************************************************)
(* target sync -> Server.sync -> SSHServer._sync -> ProjectSync.run        *)
(***************************************************************************)
\* The checks and operations of ProjectSync.run, in order; each returns to
\* run whether it succeeded.
SyncSteps ==
    << "_ensure_work_dir", "_check_git_urls_match", "_check_git_clean",
       "_check_dvc_clean", "_get_current_branch", "_sync_git",
       "_setup_dvc_cache", "_setup_dvc_remote", "_dvc_pull" >>

\* _check_git_urls_match returns True whatever the target holds.
StepsThatCanFail ==
    { SyncSteps[i] : i \in 1..Len(SyncSteps) } \ {"_check_git_urls_match"}

\* `not value` of Python.
Falsy(value) == value \in {"False", "None"}

\* SSHServer._sync: return ProjectSync(...).run()
InnerSyncOutcome(r) == r

\* Server.sync: `self._sync()` without a return: the caller gets None.
SyncOutcome(r) == "None"

InitSync ==
    /\ y_pc = "run"
    /\ y_failing \in SUBSET StepsThatCanFail
    /\ y_step = 1
    /\ y_run = "pending"
    /\ y_inner = "pending"
    /\ y_sync = "pending"
    /\ y_cmd = "pending"
    /\ OrchIdle
    /\ QuoteIdle
    /\ StreamIdle
    /\ RemoteIdle
    /\ SessIdle
    /\ ShareIdle
    /\ EnvIdle
    /\ K8sIdle
    /\ GpuModeIdle

\* ProjectSync.run: one `if not self._step(): return False`, `return True`
\* after the last.
ProjectSyncStep ==
    /\ y_pc = "run"
    /\ IF SyncSteps[y_step] \in y_failing
       THEN y_run' = "False" /\ y_pc' = "_sync" /\ y_step' = y_step
       ELSE IF y_step = Len(SyncSteps)
       THEN y_run' = "True" /\ y_pc' = "_sync" /\ y_step' = y_step
       ELSE y_run' = y_run /\ y_pc' = "run" /\ y_step' = y_step + 1
    /\ UNCHANGED <<y_failing, y_inner, y_sync, y_cmd>>
    /\ UNCHANGED syncRest

\* SSHServer._sync returns.
SSHServerSyncReturns ==
    /\ y_pc = "_sync"
    /\ y_inner' = InnerSyncOutcome(y_run)
    /\ y_pc' = "sync"
    /\ UNCHANGED <<y_failing, y_step, y_run, y_sync, y_cmd>>
    /\ UNCHANGED syncRest

\* Server.sync returns.
ServerSyncReturns ==
    /\ y_pc = "sync"
    /\ y_sync' = SyncOutcome(y_inner)
    /\ y_pc' = "command"
    /\ UNCHANGED <<y_failing, y_step, y_run, y_inner, y_cmd>>
    /\ UNCHANGED syncRest

\* sync_target: if not server.sync(): raise ValueError("Sync failed, ...")
SyncTargetEnds ==
    /\ y_pc = "command"
    /\ y_cmd' = IF Falsy(y_sync) THEN "raised" ELSE "completed"
    /\ y_pc' = "done"
    /\ UNCHANGED <<y_failing, y_step, y_run, y_inner, y_sync>>
    /\ UNCHANGED syncRest

NextSync ==
    \/ ProjectSyncStep
    \/ SSHServerSyncReturns
    \/ ServerSyncReturns
    \/ SyncTargetEnds

SpecSync == InitSync /\ [][NextSync]_vars

(***************************************************************************)
(* Claims about the orchestrators.                                         *)
(***************************************************************************)
SessionFailed == \E i \in 1..Len(issued) :
                    issued[i].kind = "new-session" /\ ~issued[i].ok

SessionCreated == \E i \in 1..Len(issued) :
                    issued[i].kind = "new-session" /\ issued[i].ok

\* C1: when the session-creation command fails, it is the last command the
\* call issues (no split-window, select-layout or send-keys follows it) and
\* the call is over, reporting failure, whatever the placement is.
C1_SessionFailureAborts ==
    \A i \in 1..Len(issued) :
        (issued[i].kind = "new-session" /\ ~issued[i].ok)
            => (i = Len(issued) /\ pc = "done" /\ result = "false")

C1_Witness ==
    /\ SessionFailed
    /\ pc = "done"
    /\ Len(gpu_ids) * num_processes >= 2

AutoDiscovered(k) ==
    /\ variant \in {"ssh", "tmuxmgr"}
    /\ gpu_config = AutoSentinel
    /\ toolPresent /\ queryOk /\ numGpus = k

\* The orchestrator's check that the enumeration tool can be used.
ToolCheckPasses ==
    IF variant = "tmuxmgr" THEN toolPresent /\ versionOk ELSE toolPresent

\* C3: with the auto sentinel "0" and K > 0 devices discovered, a completed
\* call has dispatched K * processes_per_device workers, device-major and
\* process-minor over the ids "0".."K-1", with running pane index 0..N-1;
\* 2 devices and 2 processes give (0,0), (0,1), (1,2), (1,3).  Each worker
\* is started on the device of its entry when the tool check passed.
C3_AutoPlacement ==
    (pc = "done" /\ result = "true" /\ numGpus > 0 /\ AutoDiscovered(numGpus))
        => /\ Len(Sends) = numGpus * num_processes
           /\ \A j \in 1..Len(Sends) :
                /\ Sends[j].gpu = StrOfNat((j - 1) \div num_processes)
                /\ Sends[j].idx = j - 1
                /\ ToolCheckPasses => Sends[j].dev = Sends[j].gpu
           /\ (numGpus = 2 /\ num_processes = 2)
                => [j \in 1..4 |-> <<Sends[j].gpu, Sends[j].idx>>]
                     = << << <<"0">>, 0 >>, << <<"0">>, 1 >>,
                          << <<"1">>, 2 >>, << <<"1">>, 3 >> >>

C3_Witness ==
    /\ pc = "done" /\ result = "true"
    /\ AutoDiscovered(2)
    /\ ToolCheckPasses
    /\ num_processes = 2
    /\ Len(Sends) = 4

ZeroDiscovered ==
    /\ variant \in {"ssh", "tmuxmgr"}
    /\ gpu_config = AutoSentinel
    /\ (~toolPresent \/ ~queryOk \/ numGpus = 0)

WellFormedExplicit(cfg) ==
    /\ cfg # AutoSentinel
    /\ \A k \in 1..Len(Split(cfg, ",")) : Strip(Split(cfg, ",")[k]) # <<>>

\* C5: for every explicit configuration the derived device-id list is the
\* whitespace-trimmed tokens in their original order, whatever devices are
\* discovered.
C5_ExplicitIdsAreTrimmedTokens ==
    (pc # "start" /\ WellFormedExplicit(gpu_config))
        => /\ result # "raise"
           /\ gpu_ids = ExplicitIds(gpu_config)

\* C6: with processes_per_device = 0 no command other than the session
\* creation is ever issued, and once the session is created the call ends in
\* success with no worker dispatched.
C6_ZeroProcessesNoOp ==
    num_processes = 0
        => /\ \A i \in 1..Len(issued) : issued[i].kind = "new-session"
           /\ Len(issued) <= 1
           /\ (pc = "done" /\ SessionCreated)
                => (result = "true" /\ Len(Sends) = 0)
           /\ (pc = "done" /\ result = "true") => SessionCreated

C6_Witness ==
    /\ num_processes = 0
    /\ pc = "done" /\ result = "true"
    /\ Len(gpu_ids) >= 2
    /\ Len(issued) = 1

\* Every entry of the placement has had its send-keys issued.
AllEntriesDispatched == Len(Sends) = Len(gpu_ids) * num_processes

PaneCommandFailed ==
    \E i \in 1..Len(issued) : issued[i].kind # "new-session" /\ ~issued[i].ok

\* C11: once the session is created, a failing split-window, select-layout
\* or send-keys does not end the call: when the call is over, the send-keys
\* of every placement entry has been issued and the call was not aborted.
C11_PaneFailureNotFatal ==
    (pc = "done" /\ SessionCreated)
        => (AllEntriesDispatched /\ result = "true")

SendFailed ==
    \E i \in 1..Len(issued) : issued[i].kind = "send-keys" /\ ~issued[i].ok

\* C12: when a dispatch (send-keys) command failed after the session was
\* created, the finished call does not report a plain success: its result
\* carries the failed panes.
C12_DispatchFailuresSurfaced ==
    (pc = "done" /\ SessionCreated /\ SendFailed) => result # "true"

\* C13: a session-creation failure inside the orchestrator reaches the
\* caller of Server.start as an outcome other than the one a successful
\* start gives.
C13_StartFailureReachesCaller ==
    (start_ret # "pending" /\ SessionFailed) => start_ret # StartOutcome("true")

\* Device discovery runs: always in ProjectStarter.run, for the auto
\* sentinel in StartManager.create_tmux_session.
DiscoveryRuns ==
    \/ variant = "ssh"
    \/ variant = "local" /\ gpu_config = AutoSentinel

\* C14: whatever discovery finds (tool absent, query failing, no device,
\* unparsable count, N > 0 devices) the call does not fail on it: it goes
\* on to issue the session-creation command.
C14_DiscoveryNeverFails ==
    (DiscoveryRuns /\ pc # "start")
        => /\ result # "raise"
           /\ (pc = "session" \/ (Len(issued) >= 1 /\ issued[1].kind = "new-session"))

C14_Witness ==
    /\ variant = "local" /\ gpu_config = AutoSentinel
    /\ toolPresent /\ queryOk /\ numGpus = 2
    /\ gpu_ids = << <<"0">> >>
    /\ SessionCreated

\* The orchestrator runs the entry with a device: GPU mode of run(), GPU
\* mode and a non-empty id in TmuxManager, always in StartManager and the
\* remote script.
EntryHasDevice(c) ==
    CASE variant = "ssh" -> ToolCheckPasses
      [] variant = "tmuxmgr" -> ToolCheckPasses /\ c.gpu # <<>>
      [] OTHER -> TRUE

ConfiguredIdCount ==
    IF gpu_config = AutoSentinel
    THEN IF toolPresent /\ queryOk /\ numGpus > 0 THEN numGpus ELSE 1
    ELSE Len(Split(gpu_config, ","))

\* C18: for every configuration and every processes_per_device >= 0 the
\* number of workers dispatched by a completed call of ProjectStarter.run or
\* TmuxManager.create_tmux_session is (number of device ids) *
\* processes_per_device, processes_per_device when running CPU-only (auto
\* sentinel, enumeration tool absent); the workers carry the indices 0..N-1 in order, and when no
\* tmux command failed each sits alone in the pane of its index.
C18_PlacementTableInvariant ==
    variant \in {"ssh", "tmuxmgr"}
        => /\ \A j \in 1..Len(Sends) : Sends[j].idx = j - 1
           /\ (pc = "done" /\ result = "true")
                => /\ Len(Sends) = ConfiguredIdCount * num_processes
                   /\ (gpu_config = AutoSentinel /\ ~toolPresent)
                        => /\ Len(Sends) = num_processes
                           /\ \A j \in 1..Len(Sends) : Sends[j].dev = NoDevice
                   /\ (~PaneCommandFailed /\ Len(Sends) >= 1)
                        => panes = [k \in 1..Len(Sends) |-> <<k - 1>>]

C18_Witness ==
    /\ variant = "ssh"
    /\ gpu_config = <<"0", ",", ",", "1">>
    /\ num_processes = 2
    /\ pc = "done" /\ result = "true"
    /\ ~PaneCommandFailed
    /\ Len(panes) = 6

IsBlank(cfg) == \A i \in 1..Len(cfg) : cfg[i] = " "

\* What the orchestrator derives for the auto sentinel.
AutoSentinelIds ==
    IF variant = "ssh" THEN GetGpuIds(AutoSentinel, HasGpu)
    ELSE ExpandGpuConfig(AutoSentinel)

\* C19: after parsing, an empty or blank configuration has given what the
\* auto sentinel gives, and no derived device id is the empty string.
C19_DeviceConfigInvariant ==
    (pc # "start" /\ variant \in {"ssh", "tmuxmgr"})
        => /\ IsBlank(gpu_config) => gpu_ids = AutoSentinelIds
           /\ \A k \in 1..Len(gpu_ids) : gpu_ids[k] # <<>>

RECURSIVE PanePattern(_)
\* The tmux commands of a call that dispatches n entries.
PanePattern(n) ==
    IF n = 0 THEN <<"new-session">>
    ELSE IF n = 1 THEN <<"new-session", "send-keys">>
    ELSE PanePattern(n - 1) \o <<"split-window", "select-layout", "send-keys">>

IssuedKinds == [i \in 1..Len(issued) |-> issued[i].kind]

IsPrefix(a, b) == Len(a) <= Len(b) /\ a = SubSeq(b, 1, Len(a))

\* C20: the first entry's send-keys follows the session creation directly;
\* every later entry's send-keys is directly preceded by a split-window and
\* then a select-layout.  At every moment the commands issued are a prefix
\* of new-session, send-keys, (split-window, select-layout, send-keys)*, and
\* a call that ends in success has issued all of it: N send-keys, N-1
\* splits and N-1 layouts.
C20_SplitLayoutBeforeEachLaterEntry ==
    /\ IsPrefix(IssuedKinds, PanePattern(Len(gpu_ids) * num_processes))
    /\ (pc = "done" /\ result = "true")
         => IssuedKinds = PanePattern(Len(gpu_ids) * num_processes)

C20_Witness ==
    /\ pc = "done" /\ result = "true"
    /\ Len(Sends) = 4
    /\ Len(issued) = 11
    /\ issued[3].kind = "split-window"
    /\ issued[4].kind = "select-layout"

\* The phase of the call: Idle, SessionCreating, PaneDispatch, over.
Phase ==
    CASE pc = "start" -> 0
      [] pc = "session" -> 1
      [] pc \in {"split", "layout", "send", "finish"} -> 2
      [] pc = "done" -> 3

EndedSessionFailed == pc = "done" /\ result = "false" /\ SessionFailed

EndedReady == pc = "done" /\ result = "true"

\* A finished call of ProjectStarter.run is in exactly one of SessionFailed
\* and Ready; Ready comes only after the session was created and each of the
\* N entries was dispatched once, in increasing pane index.
CallEndsWellFormed ==
    /\ pc = "done" => (EndedSessionFailed \/ EndedReady)
    /\ ~(EndedSessionFailed /\ EndedReady)
    /\ EndedSessionFailed => (~SessionCreated /\ Len(issued) = 1)
    /\ EndedReady
         => /\ SessionCreated /\ ~SessionFailed
            /\ issued[1].kind = "new-session"
            /\ Len(Sends) = Len(gpu_ids) * num_processes
            /\ \A j \in 1..Len(Sends) : Sends[j].idx = j - 1
    /\ Len(Sends) > 0 => SessionCreated

\* One step of the call: phases only advance, Idle goes to SessionCreating,
\* the dispatches are issued one at a time, and a finished call issues
\* nothing more.
CallStep ==
    /\ Phase' >= Phase
    /\ Phase = 0 => Phase' \in {0, 1}
    /\ Len(Sends') \in {Len(Sends), Len(Sends) + 1}
    /\ pc = "done" => (pc' = "done" /\ result' = result /\ issued' = issued)

\* C21: every call of ProjectStarter.run goes Idle -> SessionCreating ->
\* {SessionFailed | SessionReady} -> PaneDispatch(0..N-1) -> Ready: it always
\* ends, in exactly one of SessionFailed and Ready; SessionFailed has no
\* successor; Ready is reached only after the session was created and the
\* dispatch of each of the N entries was issued exactly once in increasing
\* pane index.
C21_CallStateMachine ==
    /\ [](variant = "ssh" => CallEndsWellFormed)
    /\ [][variant = "ssh" => CallStep]_vars
    /\ (variant = "ssh" => <>(pc = "done"))

C21_Witness ==
    /\ variant = "ssh"
    /\ EndedReady
    /\ Len(Sends) = 4
    /\ PaneCommandFailed

\* C22: each worker command is typed into the pane created for its own
\* placement entry: in every reachable state no pane has received more than
\* one worker command, also after a failed split-window.
C22_OneWorkerPerPane ==
    \A k \in 1..Len(panes) : Len(panes[k]) <= 1

\* C23: a session is never silently overwritten.  When the name a call
\* computed (last path segment of the token, "_", the minute) is the name of
\* a session the target already has, the call's session creation fails, the
\* call ends in failure having issued nothing but the new-session, every key
\* in a session was typed by the call that created it, and a call that ended
\* in success finds exactly its own dispatches in its session.
C23_NoSilentOverwrite ==
    /\ \A c \in DOMAIN n_call :
         /\ n_call[c].collided
              => /\ n_call[c].pc = "done"
                 /\ n_call[c].result = "false"
                 /\ n_call[c].issued = <<"new-session">>
         /\ (n_call[c].pc = "done" /\ n_call[c].result = "true")
              => /\ n_call[c].name \in DOMAIN n_sessions
                 /\ n_sessions[n_call[c].name].owner = c
                 /\ n_call[c].nfail = 0
                      => n_sessions[n_call[c].name].keys
                           = [k \in 1..n_call[c].n |-> [from |-> c, idx |-> k - 1]]
    /\ \A m \in DOMAIN n_sessions :
         \A k \in 1..Len(n_sessions[m].keys) :
            n_sessions[m].keys[k].from = n_sessions[m].owner

C23_Witness ==
    /\ n_call # <<>>
    /\ n_call["c1"].sweep_id = <<"e", "/", "s">>
    /\ n_call["c2"].sweep_id = <<"s">>
    /\ n_call["c1"].variant # n_call["c2"].variant
    /\ n_call["c1"].name = n_call["c2"].name
    /\ n_call["c2"].collided
    /\ n_call["c1"].pc = "done" /\ n_call["c1"].result = "true"
    /\ n_call["c1"].n = 2
    /\ n_call["c2"].n = 2

\* The call made a session on the target.
MadeSession(c) ==
    /\ n_call[c].name \in DOMAIN n_sessions
    /\ n_sessions[n_call[c].name].owner = c

\* C24: the core never tears a session down.  No step of a call (a failed
\* pane dispatch and an interruption by the caller included) removes or
\* replaces a session of the target or takes typed keys out of it: a session
\* once created is there, with its creator, in every later state of the call
\* and after it returned.
C24_SessionNeverTornDown ==
    [][\A m \in DOMAIN n_sessions :
          /\ m \in DOMAIN n_sessions'
          /\ n_sessions'[m].owner = n_sessions[m].owner
          /\ IsPrefix(n_sessions[m].keys, n_sessions'[m].keys)]_vars

C24_Witness ==
    /\ n_call # <<>>
    /\ n_call["c1"].variant = "remote"
    /\ n_call["c1"].result = "interrupted"
    /\ MadeSession("c1")
    /\ n_call["c2"].variant = "tmuxmgr"
    /\ n_call["c2"].result = "false"
    /\ n_call["c2"].nfail = 1
    /\ n_call["c2"].sent = 1
    /\ MadeSession("c2")

\* What the call consumes when it runs alone: its session starts in its own
\* work directory, the script submitted or executed is the one it wrote.
SeenAlone(c) == IF h_call[c].kind = "start" THEN WorkDirOf(c) ELSE c

\* C25: no shared mutable state crosses calls: in every interleaving of two
\* calls each call consumes what it consumes when run alone (the working
\* directory it changed to, the script it wrote to the fixed path).
C25_NoSharedMutableState ==
    \A c \in DOMAIN h_call :
        h_call[c].seen # "none" => h_call[c].seen = SeenAlone(c)

\* Where the composed command exports the key.
ExportPositions(key) ==
    { p \in 1..Len(e_out) : e_out[p] = Export(key) }

\* C26: the caller's environment variables are exported in insertion order:
\* each key is exported once, the export of the i-th key precedes the export
\* of the j-th whenever i < j, and every export precedes the wrapped command,
\* which comes last, in each of the three methods.
C26_ExportsInInsertionOrder ==
    e_pc = "done"
        => /\ e_out[Len(e_out)] = Wrapped(e_cmd)
           /\ \A p \in 1..(Len(e_out) - 1) : e_out[p].kind = "export"
           /\ \A i \in 1..Len(e_env_vars) :
                \E p \in 1..Len(e_out) : ExportPositions(e_env_vars[i]) = {p}
           /\ \A i, j \in 1..Len(e_env_vars) :
                i < j => \A p \in ExportPositions(e_env_vars[i]),
                            q \in ExportPositions(e_env_vars[j]) : p < q

\* What ProjectStarter.run makes of the call's inputs: its device ids, the
\* device of the entry at pane index j, and the command kinds it issues for
\* the outcomes the call's commands had.
StarterIds == GetGpuIds(gpu_config, HasGpu)

StarterDevice(j) ==
    IF HasGpu THEN StarterIds[((j - 1) \div num_processes) + 1] ELSE NoDevice

StarterKinds ==
    IF SessionFailed THEN <<"new-session">>
    ELSE PanePattern(Len(StarterIds) * num_processes)

\* C27: the local variant, TmuxManager and the SSH variant are one
\* behaviour: for the same configuration string, discovered devices,
\* processes per device and command outcomes, a finished call of any of
\* them has issued the command kinds ProjectStarter.run issues and has given
\* each pane index the device ProjectStarter.run gives it.
C27_VariantsAreOneBehaviour ==
    (variant \in {"ssh", "tmuxmgr", "local"} /\ pc = "done")
        => /\ result # "raise"
           /\ IssuedKinds = StarterKinds
           /\ \A j \in 1..Len(Sends) : Sends[j].dev = StarterDevice(j)

\* The started processes whose device selector is g.
ProcessesOn(g) == { p \in 1..Len(k_procs) : k_procs[p].cuda = g }

\* C28: once its start loop is over, the Kubernetes start script has started
\* gpu_count * num_processes processes when gpu_count > 0, process i on GPU
\* i mod gpu_count, so that every GPU has exactly num_processes of them, and
\* exactly num_processes processes without a GPU when gpu_count = 0; it
\* finishes only when every started process has exited.
C28_K8sScriptPlacement ==
    /\ k_pc \in {"wait", "done"}
         => /\ k_gpu_count > 0
                 => /\ Len(k_procs) = k_gpu_count * k_num_processes
                    /\ \A p \in 1..Len(k_procs) :
                         k_procs[p].cuda = (p - 1) % k_gpu_count
                    /\ \A g \in 0..(k_gpu_count - 1) :
                         Cardinality(ProcessesOn(g)) = k_num_processes
            /\ k_gpu_count = 0
                 => /\ Len(k_procs) = k_num_processes
                    /\ \A p \in 1..Len(k_procs) : k_procs[p].cuda = NoCuda
    /\ k_pc = "done" => \A p \in 1..Len(k_procs) : k_procs[p].exited

C28_Witness ==
    /\ k_pc = "done"
    /\ k_gpu_count = 2
    /\ k_num_processes = 2
    /\ Len(k_procs) = 4

\* The execution on server i succeeded.
ServerSucceeded(i) == g_servers[i].reach /\ g_servers[i].failAt = 0

ServersWithWorkers == { i \in 1..Len(g_started) : g_started[i] > 0 }

\* RemoteGpuMode.execute contacts the servers in list order, none after the
\* first one that succeeded, and returns True exactly when one succeeded.
GpuModeFirstSuccess ==
    /\ g_contacted = [k \in 1..Len(g_contacted) |-> k]
    /\ \A k \in 1..Len(g_contacted) :
         \A j \in 1..(k - 1) : ~ServerSucceeded(j)
    /\ g_pc = "done"
         => (g_ret = "true"
               <=> \E k \in 1..Len(g_contacted) : ServerSucceeded(k))

\* C29: RemoteGpuMode.execute tries the servers in list order and stops at
\* the first success, returns True exactly when the execution on some server
\* succeeded, and when it returns worker panes have been started on at most
\* one of the servers.
C29_FirstSuccessOnly ==
    /\ GpuModeFirstSuccess
    /\ g_pc = "done" => Cardinality(ServersWithWorkers) <= 1

\* C30: `target sync` raises "Sync failed" if and only if the server's sync
\* failed: when ProjectSync.run returned success, Server.sync reports
\* success to the command and the command completes without raising.
C30_SyncFailsIffSyncFailed ==
    /\ y_cmd # "pending" => (y_cmd = "raised" <=> y_run = "False")
    /\ (y_sync # "pending" /\ y_run = "True") => ~Falsy(y_sync)

(***************************************************************************)
(* Claims about command composition.                                       *)
(***************************************************************************)
BenignTarget == q_host = <<"h">> /\ q_work_dir = <<"w">>

\* The words the local shell must hand to ssh before the command argument.
SshWords(pty, host) ==
    << <<"ssh">>, <<"-p">>, <<"22">> >>
        \o (IF pty THEN << <<"-t">> >> ELSE <<>>) \o <<host>>

\* The remote command text the caller means, with the caller's command(s)
\* verbatim.
IntendedRemoteText ==
    IF q_api = "execute_command"
    THEN (IF q_no_work_dir THEN <<>> ELSE <<"cd", " ">> \o q_work_dir \o <<" ", "&&", " ">>)
         \o q_cmds[1]
    ELSE <<"cd", " ">> \o q_work_dir \o <<" ", "&&", " ">>
         \o Join(q_cmds, <<" ", "&&", " ">>)

QuoteCount(s) == Cardinality({i \in 1..Len(s) : s[i] = "'"})

\* C7: the escaped, single-quoted form of any command (also one holding
\* single quotes), read by a POSIX shell, is one argument that reproduces the
\* command character for character.
C7_QuotingRoundTrip ==
    (q_pc # "idle" /\ BenignTarget)
        => /\ q_local.ok
           /\ Len(q_local.cmds) = 1
           /\ q_local.cmds[1]
                = SshWords(q_api = "execute_command" /\ q_pty, q_host)
                    \o <<IntendedRemoteText>>

C7_Witness ==
    /\ q_pc = "local"
    /\ BenignTarget
    /\ q_api = "execute_command"
    /\ QuoteCount(q_cmds[1]) >= 2
    /\ q_cmds[1][1] = "'"

\* C8: every external string put into a shell invocation is escaped, so it
\* reaches the program it is meant for as one literal word: the host as
\* ssh's host argument, the work directory as the one argument of the remote
\* cd.
C8_EveryExternalStringEscaped ==
    /\ q_pc # "idle"
         => /\ q_local.ok
            /\ Len(q_local.cmds) = 1
            /\ Len(q_local.cmds[1])
                 = Len(SshWords(q_api = "execute_command" /\ q_pty, q_host)) + 1
            /\ q_local.cmds[1][Len(q_local.cmds[1]) - 1] = q_host
    /\ (q_pc = "remote" /\ ~(q_api = "execute_command" /\ q_no_work_dir))
         => /\ q_remote.ok
            /\ q_remote.cmds # <<>>
            /\ q_remote.cmds[1] = << <<"cd">>, q_work_dir >>

(***************************************************************************)
(* Claims about the remote start.                                          *)
(***************************************************************************)
\* C15: a connection failure is handed back by the channel as a result with
\* a non-zero exit code and ssh's error text attached, never as a bare
\* boolean.
C15_ConnectionFailureCarriesError ==
    (r_last.conn \in {"unreachable", "auth"})
        => /\ r_last.kind = "result"
           /\ r_last.returncode # 0
           /\ r_last.stderr = TransportError(r_last.conn)

\* The line holds the token, whole and in order.
ContainsToken(line, token) ==
    \E i \in 1..(Len(line) - Len(token) + 1) :
        SubSeq(line, i, i + Len(token) - 1) = token

\* C16: no printed line holds the complete secret token, verbose or not,
\* whether the run succeeds or fails.
C16_TokenNeverPrintedInFull ==
    r_token # <<>>
        => \A l \in 1..Len(r_printed) : ~ContainsToken(r_printed[l], r_token)

(***************************************************************************)
(* Claims about streaming.                                                 *)
(***************************************************************************)
\* The child writes more than a pipe holds, all of it to one stream.
OneStreamSilent ==
    /\ Len(s_prog) > PipeCap
    /\ \E st \in Streams : \A i \in 1..Len(s_prog) : s_prog[i].s = st

\* The reader waits inside a readline on st.
ReaderBlockedOn(st) ==
    /\ \/ s_pc = "serve" /\ Head(s_ready) = st
       \/ s_pc = "fb_out" /\ st = "out"
       \/ s_pc = "fb_err" /\ st = "err"
    /\ ReadlineBlocked(st)

\* The child waits to write to st, whose pipe is full.
ProcBlockedOn(st) ==
    /\ s_proc = "running"
    /\ s_ip <= Len(s_prog)
    /\ s_prog[s_ip].s = st
    /\ Len(s_pipe[st]) >= PipeCap

Deadlocked ==
    \E a \in Streams, b \in Streams :
        a # b /\ ReaderBlockedOn(a) /\ ProcBlockedOn(b)

\* C2: when the child writes more than a pipe buffer to one stream and
\* nothing to the other, the reader is never waiting on one stream while the
\* child waits to write to the other.
C2_StreamingNeverDeadlocks == OneStreamSilent => ~Deadlocked

\* The same where select.select works on the pipes: the deadlock needs the
\* except branch.
StreamingNeverDeadlocksWithSelect == (s_select /\ OneStreamSilent) => ~Deadlocked

\* C9: an interrupt at any point of the streaming call ends it with the
\* terminate signal sent, the child gone, and a result of exit code -1
\* carrying the interruption note.
C9_InterruptReturnsSentinel ==
    (s_intr /\ s_pc \in {"returned", "raised"})
        => /\ s_pc = "returned"
           /\ s_term
           /\ s_proc # "running"
           /\ s_result.returncode = -1
           /\ s_result.stderr = InterruptNote

\* What the child has written to stream st so far.
Written(st) ==
    LET mine == SelectSeq(SubSeq(s_prog, 1, s_ip - 1), LAMBDA w : w.s = st)
    IN  [i \in 1..Len(mine) |-> mine[i].c]

\* C10: when the child runs to completion, the returned stdout and stderr
\* are exactly what it wrote to each stream, in order, and all of it was
\* echoed.
C10_StreamResultIsWhatWasWritten ==
    (s_pc = "returned" /\ ~s_intr)
        => /\ s_result.stdout = Written("out")
           /\ s_result.stderr = Written("err")
           /\ s_echo.out = Written("out")
           /\ s_echo.err = Written("err")

====
